---------------------------- MODULE Spec2Model ----------------------------
(***************************************************************************)
(* A model of the maze core of asciimaze (package maze3d):                 *)
(*   maze.py     generate_maze, find_path_cells                            *)
(*   raycast.py  cast_ray, compute_wall_span                               *)
(*   movement.py the functions that move the Player                        *)
(*   render_braille.py  the glyph of one terminal cell                     *)
(*   game.py     the game loop: _new_level, _read_input, _expire_controls, *)
(*               _update_simulation, _check_win                            *)
(* Every function is a small state machine over its local variables; one   *)
(* specification per function (SpecGen, SpecPath, SpecRay, SpecSpan,       *)
(* SpecMove, SpecBraille) runs it from every input of a bounded set while  *)
(* the other functions' locals stay idle.  SpecGame runs the game loop,    *)
(* one action per frame.                                                   *)
(***************************************************************************)
EXTENDS Integers, Sequences, FiniteSets, TLC

VARIABLES
    grid,        \* the occupancy grid: grid[y][x], rows 0..H-1, columns 0..W-1
    gen_pc,      \* generate_maze: "call" | "loop" | "done" | "raised"
    arg_w,       \* generate_maze: the cell_w the caller passed
    arg_h,       \* generate_maze: the cell_h the caller passed
    cell_w,      \* generate_maze: the local cell_w (rebound by the clamp)
    cell_h,      \* generate_maze: the local cell_h (rebound by the clamp)
    visited,     \* generate_maze: visited[cy][cx]
    stack,       \* generate_maze: the DFS stack, a sequence of <<cx, cy>>
    marked,      \* history: how often visited[cy][cx] was assigned True
    pushed,      \* history: how often <<cx, cy>> was pushed on the stack
    rng_out,     \* the outcomes the seeded rng has produced, in order
    rng_pos,     \* how many of them the current run has consumed
    run,         \* 1: first run of generate_maze, 2: second run, same seed
    first_grid,  \* the grid the first run returned (<<>> before)
    fp_pc,       \* find_path_cells: "idle" | "call" | "bfs" | "check" | "build"
                 \*                  | "done" | "raised"
    start,       \* find_path_cells: parameter start, <<sx, sy>>
    goal,        \* find_path_cells: parameter goal, <<gx, gy>>
    q,           \* find_path_cells: the deque, a sequence of cells
    prev,        \* find_path_cells: the dict prev, cell -> cell or None
    path,        \* find_path_cells: the list path
    cur,         \* find_path_cells: cur in the build loop
    fp_ret,      \* find_path_cells: the value returned (None before)
    ray_pc,      \* cast_ray: "idle" | "call" | "loop" | "done"
    px,          \* cast_ray: parameter px, in units of 1/RayScale
    py,          \* cast_ray: parameter py, in units of 1/RayScale
    ang,         \* cast_ray: parameter ang, an index into RayAngles
    map_x,       \* cast_ray: map_x
    map_y,       \* cast_ray: map_y
    delta_dist_x, \* cast_ray: delta_dist_x, a distance (see Dist)
    delta_dist_y, \* cast_ray: delta_dist_y
    side_dist_x, \* cast_ray: side_dist_x
    side_dist_y, \* cast_ray: side_dist_y
    step_x,      \* cast_ray: step_x
    step_y,      \* cast_ray: step_y
    side,        \* cast_ray: side
    ray_ret,     \* cast_ray: the pair returned, <<dist, side>> (None before)
    span_pc,     \* compute_wall_span: "idle" | "call" | "done"
    height,      \* compute_wall_span: parameter height, an int
    dist,        \* compute_wall_span: parameter dist, in units of 1/SpanScale
    cam_z,       \* compute_wall_span: parameter cam_z, in units of 1/SpanScale
    mid,         \* compute_wall_span: parameter mid, in units of 1/SpanScale
    span_ret,    \* compute_wall_span: the pair returned, <<top, bot>>
    player,      \* the Player: [x, y, z, ang, pitch, vz], in units of 1/Scale
    demo_path,   \* LevelState.demo_path / parameter path (None or a list)
    demo_idx,    \* LevelState.demo_idx / parameter idx
    mv_pc,       \* movement functions: "idle" | "call" | "done"
    mv_op,       \* movement functions: the function that is called
    forward,     \* movement functions: parameter forward
    vert_dir,    \* movement functions: parameter vert_dir
    dt,          \* movement functions: parameter dt, in units of 1/Scale
    old_player,  \* history: the Player when the function was called
    old_idx,     \* history: the idx when the function was called
    br_pc,       \* render_braille.cell: "idle" | "call" | "done"
    br_y,        \* render_braille: the terminal row y
    br_top,      \* render_braille: <<top_p[2*xi], top_p[2*xi+1]>>
    br_bot,      \* render_braille: <<bot_p[2*xi], bot_p[2*xi+1]>>
    br_ret,      \* render_braille.cell: the glyph, a string of one code point
                 \* (None before, and when no bit is set)
    cl_pc,       \* the three renderers, one terminal cell: "idle" | "call" | "done"
    cl_view_h,   \* view_h
    cl_y,        \* the terminal row y
    cl_top,      \* the wall span of the column, in terminal rows: top
    cl_bot,      \* the wall span of the column, in terminal rows: bottom
    cl_mask,     \* None when row_top_mask is None or use_floorcast is off,
                 \* else <<row_top_mask[x]>>
    cl_ret,      \* the class of the cell that each renderer draws (None before)
    game_pc,     \* game.main: "idle" | "play" | "quit"
    mode,        \* Settings.mode
    difficulty,  \* Settings.difficulty
    ctrl,        \* ControlState: the four directions, and for each the time
                 \* left until its *_until (in 1/Scale s; -1 once it is past)
    last_mouse_x, \* ControlState.last_mouse_x: None or <<mx>>
    goal_xy,     \* LevelState.goal_xy
    level_no,    \* history: how many times _new_level has run
    frames,      \* history: how many frames the loop has run
    tick         \* history: what the last frame did (see NoTick)

genVars == <<gen_pc, arg_w, arg_h, cell_w, cell_h, visited, stack, marked, pushed,
             rng_out, rng_pos, run, first_grid>>
fpVars == <<fp_pc, start, goal, q, prev, path, cur, fp_ret>>
rayVars == <<ray_pc, px, py, ang, map_x, map_y, delta_dist_x, delta_dist_y,
             side_dist_x, side_dist_y, step_x, step_y, side, ray_ret>>
spanVars == <<span_pc, height, dist, cam_z, mid, span_ret>>
mvVars == <<player, demo_path, demo_idx, mv_pc, mv_op, forward, vert_dir, dt,
            old_player, old_idx>>
brVars == <<br_pc, br_y, br_top, br_bot, br_ret>>
cellVars == <<cl_pc, cl_view_h, cl_y, cl_top, cl_bot, cl_mask, cl_ret>>
gameVars == <<game_pc, mode, difficulty, ctrl, last_mouse_x, goal_xy, level_no,
              frames, tick>>
extVars == <<mvVars, brVars, gameVars, cellVars>>
vars == <<grid, genVars, fpVars, rayVars, spanVars, extVars>>

----------------------------------------------------------------------------
(* constants.py *)
WALL == "#"
OPEN == " "

\* Python's None
None == << >>

MAX_RAY_DIST == 40
WALL_HEIGHT == 1

(* Bounds of the model. *)
MaxCellW == 3
MaxCellH == 3
MaxPathW == 2
MaxPathH == 2
MaxRayW == 2
MaxRayH == 2
RayScale == 2    \* coordinates are multiples of 1/RayScale
MaxSpanH == 4
MaxSpanDist == 6
SpanScale == 2   \* dist, cam_z and mid are multiples of 1/SpanScale
Scale == 1000    \* the Player's floats are multiples of 1/Scale
MvSteps == 2     \* the Player's starting coordinates are multiples of 1/MvSteps
MaxDt16 == 4     \* frame times up to MaxDt16/16 s
MaxBrRows == 2   \* the Braille view has up to MaxBrRows terminal rows
MaxFrames == 2      \* the game loop runs up to MaxFrames frames
MaxDifficulty == 2  \* Settings.difficulty is 1 or MaxDifficulty
MaxMouseX == 300    \* the mouse is reported at column 0 or MaxMouseX
MaxDemoW == 2       \* an autopilot is run on mazes of 2 to MaxDemoW cells by
MaxDemoH == 3       \* 2 to MaxDemoH cells
MaxViewH == 4       \* the view of a renderer has up to MaxViewH terminal rows

----------------------------------------------------------------------------
(* Helpers for Python values. *)
Max(a, b) == IF a >= b THEN a ELSE b
Min(a, b) == IF a <= b THEN a ELSE b
\* F(v), with v evaluated once: a local variable that holds the value v
Once(v, F(_)) == CHOOSE r \in {F(x) : x \in {v}} : TRUE

\* the rows and columns of a grid: len(grid), len(grid[0])
GridH(g) == Cardinality(DOMAIN g)
GridW(g) == IF GridH(g) = 0 THEN 0 ELSE Cardinality(DOMAIN g[0])
InGrid(g, x, y) == 0 <= x /\ x < GridW(g) /\ 0 <= y /\ y < GridH(g)
\* the coordinates <<x, y>> of a w by h array
Cells(w, h) == {<<x, y>> : x \in 0..w-1, y \in 0..h-1}

----------------------------------------------------------------------------
(* maze.py: generate_maze *)

\* cell_to_map: lattice cell to map coordinates
cell_to_map_even(cx, cy) == <<2 * cx, 2 * cy>>
cell_to_map(cx, cy) == <<2 * cx + 1, 2 * cy + 1>>

\* the four lattice directions, in the order the for loop visits them
GenDirs == << <<-1, 0>>, <<1, 0>>, <<0, -1>>, <<0, 1>> >>

\* the candidate at direction d of cell <<cx, cy>> passes the test of line 41
GenUnvisited(cx, cy, d) ==
    LET nx == cx + d[1]
        ny == cy + d[2]
    IN  0 <= nx /\ nx < cell_w /\ 0 <= ny /\ ny < cell_h /\ ~visited[ny][nx]

\* neigh: the unvisited lattice neighbours of the stack top, in loop order
RECURSIVE GenNeighFrom(_, _, _)
GenNeighFrom(cx, cy, i) ==
    IF i > Len(GenDirs) THEN << >>
    ELSE (IF GenUnvisited(cx, cy, GenDirs[i])
              THEN << <<cx + GenDirs[i][1], cy + GenDirs[i][2]>> >>
              ELSE << >>) \o GenNeighFrom(cx, cy, i + 1)
GenNeigh(cx, cy) == GenNeighFrom(cx, cy, 1)

\* rng.choice(neigh): the index the seeded rng picks among n candidates. The
\* first run draws fresh outcomes; a second run with the same seed gets the
\* same outcomes again.
RngChoiceUnseeded(n) == 1..n
RngChoiceIndex(n) ==
    IF run = 1 THEN 1..n ELSE {rng_out[rng_pos + 1]} \cap (1..n)

\* lines 21-22: max(2, int(n)) of an int n
GenClampLow(n) == Max(1, n)
GenClamp(n) == Max(2, n)

\* line 49: the map cell between two map cells
GenBetweenNone(p1, p2) == p2
GenBetween(p1, p2) == <<(p1[1] + p2[1]) \div 2, (p1[2] + p2[2]) \div 2>>

\* line 52: stack.pop()
GenPoppedNot(s) == s
GenPopped(s) == SubSeq(s, 1, Len(s) - 1)

\* lines 21-34: clamp the size, allocate grid and visited, open the first cell
GenCall ==
    /\ gen_pc = "call"
    /\ LET cw == GenClamp(cell_w)
           ch == GenClamp(cell_h)
           W  == cw * 2 + 1
           H  == ch * 2 + 1
           s  == cell_to_map(0, 0)
           g0 == [y \in 0..H-1 |-> [x \in 0..W-1 |-> WALL]]
           v0 == [cy \in 0..ch-1 |-> [cx \in 0..cw-1 |-> FALSE]]
           z0 == [cy \in 0..ch-1 |-> [cx \in 0..cw-1 |-> 0]]
       IN  /\ cell_w' = cw
           /\ cell_h' = ch
           /\ grid' = [g0 EXCEPT ![s[2]][s[1]] = OPEN]
           /\ visited' = [v0 EXCEPT ![0][0] = TRUE]
           /\ marked' = [z0 EXCEPT ![0][0] = 1]
           /\ stack' = << <<0, 0>> >>
           /\ pushed' = [z0 EXCEPT ![0][0] = 1]
    /\ gen_pc' = "loop"
    /\ UNCHANGED <<arg_w, arg_h, rng_out, rng_pos, run, first_grid,
                   fpVars, rayVars, spanVars, extVars>>

\* lines 37-50: the stack top has an unvisited neighbour: carve to one of them
GenCarve ==
    /\ gen_pc = "loop"
    /\ stack # << >>
    /\ LET cx == stack[Len(stack)][1]
           cy == stack[Len(stack)][2]
           neigh == GenNeigh(cx, cy)
       IN  /\ neigh # << >>
           /\ \E i \in RngChoiceIndex(Len(neigh)) :
                LET nx == neigh[i][1]
                    ny == neigh[i][2]
                    p1 == cell_to_map(cx, cy)
                    p2 == cell_to_map(nx, ny)
                    m  == GenBetween(p1, p2)
                IN  /\ visited' = [visited EXCEPT ![ny][nx] = TRUE]
                    /\ marked' = [marked EXCEPT ![ny][nx] = @ + 1]
                    /\ rng_out' = IF run = 1 THEN Append(rng_out, i) ELSE rng_out
                    /\ rng_pos' = rng_pos + 1
                    /\ IF InGrid(grid, p2[1], p2[2]) /\ InGrid(grid, m[1], m[2])
                       THEN /\ grid' = [grid EXCEPT ![p2[2]][p2[1]] = OPEN,
                                                    ![m[2]][m[1]] = OPEN]
                            /\ stack' = Append(stack, <<nx, ny>>)
                            /\ pushed' = [pushed EXCEPT ![ny][nx] = @ + 1]
                            /\ UNCHANGED gen_pc
                       ELSE \* IndexError at line 48 or 49
                            /\ gen_pc' = "raised"
                            /\ UNCHANGED <<grid, stack, pushed>>
    /\ UNCHANGED <<arg_w, arg_h, cell_w, cell_h, run, first_grid,
                   fpVars, rayVars, spanVars, extVars>>

\* lines 51-52: no unvisited neighbour: pop
GenPop ==
    /\ gen_pc = "loop"
    /\ stack # << >>
    /\ GenNeigh(stack[Len(stack)][1], stack[Len(stack)][2]) = << >>
    /\ stack' = GenPopped(stack)
    /\ UNCHANGED <<grid, gen_pc, arg_w, arg_h, cell_w, cell_h, visited, marked, pushed,
                   rng_out, rng_pos, run, first_grid,
                   fpVars, rayVars, spanVars, extVars>>

\* lines 36, 54: the stack is empty: the loop ends and the grid is returned
GenReturn ==
    /\ gen_pc = "loop"
    /\ stack = << >>
    /\ gen_pc' = "done"
    /\ first_grid' = IF run = 1 THEN grid ELSE first_grid
    /\ UNCHANGED <<grid, arg_w, arg_h, cell_w, cell_h, visited, stack, marked, pushed,
                   rng_out, rng_pos, run,
                   fpVars, rayVars, spanVars, extVars>>

\* generate_maze is called a second time with the same size and an rng seeded
\* as the first one was
GenSecondRun ==
    /\ gen_pc = "done"
    /\ run = 1
    /\ run' = 2
    /\ rng_pos' = 0
    /\ gen_pc' = "call"
    /\ cell_w' = arg_w
    /\ cell_h' = arg_h
    /\ UNCHANGED <<grid, arg_w, arg_h, visited, stack, marked, pushed,
                   rng_out, first_grid,
                   fpVars, rayVars, spanVars, extVars>>

\* the sizes generate_maze is called with (sizes below 2 included)
GenSizesW == 0..MaxCellW
GenSizesH == 1..MaxCellH

GenIdle ==
    /\ gen_pc = "idle"
    /\ arg_w = 0 /\ arg_h = 0 /\ cell_w = 0 /\ cell_h = 0
    /\ visited = << >> /\ stack = << >> /\ marked = << >> /\ pushed = << >>
    /\ rng_out = << >> /\ rng_pos = 0 /\ run = 1 /\ first_grid = << >>

FpIdle ==
    /\ fp_pc = "idle"
    /\ start = None /\ goal = None /\ q = << >> /\ prev = << >>
    /\ path = << >> /\ cur = None /\ fp_ret = None

RayIdle ==
    /\ ray_pc = "idle"
    /\ px = 0 /\ py = 0 /\ ang = 1 /\ map_x = 0 /\ map_y = 0
    /\ delta_dist_x = <<0, 0>> /\ delta_dist_y = <<0, 0>>
    /\ side_dist_x = <<0, 0>> /\ side_dist_y = <<0, 0>>
    /\ step_x = 0 /\ step_y = 0 /\ side = 0 /\ ray_ret = None

SpanIdle ==
    /\ span_pc = "idle"
    /\ height = 0 /\ dist = 0 /\ cam_z = 0 /\ mid = 0 /\ span_ret = None

\* Python's Player(x=0, y=0, z=0, ang=0): every field 0
NoPlayer == [x |-> 0, y |-> 0, z |-> 0, ang |-> 0, pitch |-> 0, vz |-> 0]

MvIdle ==
    /\ mv_pc = "idle"
    /\ player = NoPlayer /\ demo_path = None /\ demo_idx = 0
    /\ mv_op = "" /\ forward = 0 /\ vert_dir = 0 /\ dt = 0
    /\ old_player = NoPlayer /\ old_idx = 0

BrIdle ==
    /\ br_pc = "idle"
    /\ br_y = 0 /\ br_top = <<0, 0>> /\ br_bot = <<0, 0>> /\ br_ret = None

\* game.py: ControlState().  Every *_until starts at 0.0, which the monotonic
\* clock has passed: the model keeps, for each, the time left until it
\* (now is subtracted), and -1 for every time that is past.
NewControlState ==
    [move_dir |-> 0, rot_dir |-> 0, pitch_dir |-> 0, vert_dir |-> 0,
     move_until |-> -1, rot_until |-> -1, pitch_until |-> -1, vert_until |-> -1]

\* history of one frame of game.main's loop:
\*   action      what _read_input returned: "continue" or "restart"
\*   menu        _read_input ran the pause menu
\*   mode        Settings.mode when _update_simulation ran
\*   p_input     the Player after _read_input
\*   p_look      the Player after the pitch and rotation lines of
\*               _update_simulation (game.py 318-326)
\*   p_vert      the Player after update_free_vertical (modes free and
\*               demo_free; p_look in the other modes)
\*   p_end       the Player after _update_simulation
\*   floor_vert, floor_end  cell_floor_height of the cells of p_vert and p_end
\*               in the grid of the frame
\*   controller  the branch of _update_simulation that ran ("none": none)
\*   vdir        the vertical intent passed to update_free_vertical (0 when
\*               it was not called)
\*   grid0, level0, difficulty0  grid, level_no and difficulty before the frame
\*   won         _check_win returned True
NoTick ==
    [action |-> "", menu |-> FALSE, mode |-> "", p_input |-> NoPlayer, p_look |-> NoPlayer,
     p_vert |-> NoPlayer, p_end |-> NoPlayer, floor_vert |-> 0, floor_end |-> 0,
     controller |-> "", vdir |-> 0, grid0 |-> << >>, level0 |-> 0,
     difficulty0 |-> 0, won |-> FALSE]

GameIdle ==
    /\ game_pc = "idle"
    /\ mode = "" /\ difficulty = 0 /\ ctrl = NewControlState
    /\ last_mouse_x = None /\ goal_xy = <<0, 0>>
    /\ level_no = 0 /\ frames = 0 /\ tick = NoTick

CellIdle ==
    /\ cl_pc = "idle"
    /\ cl_view_h = 0 /\ cl_y = 0 /\ cl_top = 0 /\ cl_bot = 0
    /\ cl_mask = None /\ cl_ret = None

ExtIdle == MvIdle /\ BrIdle /\ GameIdle /\ CellIdle

GenInit ==
    /\ gen_pc = "call"
    /\ arg_w \in GenSizesW
    /\ arg_h \in GenSizesH
    /\ cell_w = arg_w
    /\ cell_h = arg_h
    /\ grid = << >>
    /\ visited = << >>
    /\ stack = << >>
    /\ marked = << >>
    /\ pushed = << >>
    /\ rng_out = << >>
    /\ rng_pos = 0
    /\ run = 1
    /\ first_grid = << >>
    /\ FpIdle
    /\ RayIdle
    /\ SpanIdle
    /\ ExtIdle

GenNext == GenCall \/ GenCarve \/ GenPop \/ GenReturn \/ GenSecondRun

SpecGen == GenInit /\ [][GenNext]_vars
SpecGenFair == SpecGen /\ WF_vars(GenNext)

----------------------------------------------------------------------------
(* maze.py: find_path_cells *)

\* line 92: start and goal lie inside the W by H grid
FpArgsInGridLoose(s, g, W, H) ==
    0 <= s[1] /\ s[1] <= W /\ 0 <= s[2] /\ s[2] <= H
    /\ 0 <= g[1] /\ g[1] <= W /\ 0 <= g[2] /\ g[2] <= H
FpArgsInGrid(s, g, W, H) ==
    0 <= s[1] /\ s[1] < W /\ 0 <= s[2] /\ s[2] < H
    /\ 0 <= g[1] /\ g[1] < W /\ 0 <= g[2] /\ g[2] < H

\* the four directions, in the order of the for loop of line 102
FpDirs == << <<1, 0>>, <<-1, 0>>, <<0, 1>>, <<0, -1>> >>

\* lines 102-106: the for loop over the directions i.. at the popped cell c,
\* from the dict pv and the deque qq; yields <<prev, q>>
RECURSIVE FpExpand(_, _, _, _)
FpExpand(c, i, pv, qq) ==
    IF i > Len(FpDirs) THEN <<pv, qq>>
    ELSE LET n == <<c[1] + FpDirs[i][1], c[2] + FpDirs[i][2]>>
         IN  IF /\ InGrid(grid, n[1], n[2])
                /\ grid[n[2]][n[1]] = OPEN
                /\ n \notin DOMAIN pv
             THEN FpExpand(c, i + 1, pv @@ (n :> c), Append(qq, n))
             ELSE FpExpand(c, i + 1, pv, qq)

\* path.reverse()
RECURSIVE Reverse(_)
Reverse(s) == IF s = << >> THEN << >> ELSE Reverse(Tail(s)) \o <<Head(s)>>

\* lines 88-96: the bounds test; then the deque and the dict are set up
FpCall ==
    /\ fp_pc = "call"
    /\ IF FpArgsInGrid(start, goal, GridW(grid), GridH(grid))
       THEN /\ q' = <<start>>
            /\ prev' = (start :> None)
            /\ fp_pc' = "bfs"
            /\ UNCHANGED fp_ret
       ELSE /\ fp_ret' = <<start>>
            /\ fp_pc' = "done"
            /\ UNCHANGED <<q, prev>>
    /\ UNCHANGED <<grid, start, goal, path, cur,
                   genVars, rayVars, spanVars, extVars>>

\* lines 98-106: one iteration of the while loop
FpBfsStep ==
    /\ fp_pc = "bfs"
    /\ q # << >>
    /\ LET c == Head(q)
       IN  IF c = goal
           THEN /\ q' = Tail(q)
                /\ fp_pc' = "check"
                /\ UNCHANGED prev
           ELSE \E r \in {FpExpand(c, 1, prev, Tail(q))} :
                    /\ prev' = r[1]
                    /\ q' = r[2]
                    /\ UNCHANGED fp_pc
    /\ UNCHANGED <<grid, start, goal, path, cur, fp_ret,
                   genVars, rayVars, spanVars, extVars>>

\* line 98: the deque is empty, the while loop ends
FpLoopExit ==
    /\ fp_pc = "bfs"
    /\ q = << >>
    /\ fp_pc' = "check"
    /\ UNCHANGED <<grid, start, goal, q, prev, path, cur, fp_ret,
                   genVars, rayVars, spanVars, extVars>>

\* lines 108-112: no route: return [start]; else start the build loop
FpCheck ==
    /\ fp_pc = "check"
    /\ IF goal \notin DOMAIN prev
       THEN /\ fp_ret' = <<start>>
            /\ fp_pc' = "done"
            /\ UNCHANGED <<path, cur>>
       ELSE /\ path' = << >>
            /\ cur' = goal
            /\ fp_pc' = "build"
            /\ UNCHANGED fp_ret
    /\ UNCHANGED <<grid, start, goal, q, prev,
                   genVars, rayVars, spanVars, extVars>>

\* lines 113-115: one iteration of the build loop (KeyError when cur is no
\* key of prev)
FpBuildStep ==
    /\ fp_pc = "build"
    /\ cur # None
    /\ path' = Append(path, cur)
    /\ IF cur \in DOMAIN prev
       THEN cur' = prev[cur] /\ UNCHANGED fp_pc
       ELSE fp_pc' = "raised" /\ UNCHANGED cur
    /\ UNCHANGED <<grid, start, goal, q, prev, fp_ret,
                   genVars, rayVars, spanVars, extVars>>

\* lines 113, 116-117: cur is None: reverse the path and return it
FpReturn ==
    /\ fp_pc = "build"
    /\ cur = None
    /\ path' = Reverse(path)
    /\ fp_ret' = path'
    /\ fp_pc' = "done"
    /\ UNCHANGED <<grid, start, goal, q, prev, cur,
                   genVars, rayVars, spanVars, extVars>>

\* the grids find_path_cells is called on: every grid of up to MaxPathH rows
\* and MaxPathW columns, the empty grid among them
FpGrids ==
    UNION {[0..h-1 -> [0..w-1 -> {WALL, OPEN}]] :
              w \in 1..MaxPathW, h \in 0..MaxPathH}

\* the cells start and goal are drawn from: the grid and one ring around it
FpPoints(g) == {<<x, y>> : x \in -1..GridW(g), y \in -1..GridH(g)}

FpInit ==
    /\ grid \in FpGrids
    /\ start \in FpPoints(grid)
    /\ goal \in FpPoints(grid)
    /\ fp_pc = "call"
    /\ q = << >> /\ prev = << >> /\ path = << >> /\ cur = None /\ fp_ret = None
    /\ GenIdle
    /\ RayIdle
    /\ SpanIdle
    /\ ExtIdle

FpNext ==
    FpCall \/ FpBfsStep \/ FpLoopExit \/ FpCheck \/ FpBuildStep \/ FpReturn

SpecPath == FpInit /\ [][FpNext]_vars

----------------------------------------------------------------------------
(* raycast.py: cast_ray *)

(* Floats are modelled as exact numbers on a fixed grid.  A coordinate is   *)
(* an integer number of 1/RayScale.  A ray direction is one of RayAngles,  *)
(* whose cosine and sine are exact fifths (the axes and the 3-4-5          *)
(* directions).  A distance is a pair <<big, fin>> that stands for         *)
(*     big * (1e30 / RayScale) + fin / RayDen                              *)
(* so that the 1e30 the code substitutes for 1/0 is kept apart from the    *)
(* finite distances, which it exceeds; pairs compare lexicographically.    *)
RayDen == 60 * RayScale

Abs(n) == IF n < 0 THEN -n ELSE n

\* int(v) of the float v = a/b, b > 0: truncation toward zero
TruncDiv(a, b) == IF a >= 0 THEN a \div b ELSE -((-a) \div b)

\* the angles cast_ray is called with, as <<5*cos(ang), 5*sin(ang)>>
RayAngles == << <<5, 0>>, <<4, 3>>, <<3, 4>>, <<0, 5>>, <<-3, 4>>, <<-4, 3>>,
                <<-5, 0>>, <<-4, -3>>, <<-3, -4>>, <<0, -5>>, <<3, -4>>,
                <<4, -3>> >>
Cos5(a) == RayAngles[a][1]
Sin5(a) == RayAngles[a][2]

DistLess(d, e) == d[1] < e[1] \/ (d[1] = e[1] /\ d[2] < e[2])
DistAdd(d, e) == <<d[1] + e[1], d[2] + e[2]>>
DistSub(d, e) == <<d[1] - e[1], d[2] - e[2]>>
\* f * d for the float f = k/RayScale
DistTimes(k, d) == <<(k * d[1]) \div RayScale, (k * d[2]) \div RayScale>>

\* lines 19-20: 1e30 if ray_dir == 0 else abs(1.0 / ray_dir), ray_dir = c5/5
DeltaDist(c5) ==
    IF c5 = 0 THEN <<RayScale, 0>> ELSE <<0, (5 * RayDen) \div Abs(c5)>>

\* lines 22-34: the distance to the first grid line on one axis, from the
\* coordinate p (units of 1/RayScale) in cell m, for direction c5
SideDistSwapped(c5, p, m, delta) ==
    IF c5 < 0 THEN DistTimes((m + 1) * RayScale - p, delta)
              ELSE DistTimes(p - m * RayScale, delta)
SideDist(c5, p, m, delta) ==
    IF c5 < 0 THEN DistTimes(p - m * RayScale, delta)
              ELSE DistTimes((m + 1) * RayScale - p, delta)

\* line 55: min(max(dist, 0.0), MAX_RAY_DIST), in units of 1/RayDen
RayClampNone(d) == d[2]
RayClamp(d) ==
    IF d[1] > 0 THEN MAX_RAY_DIST * RayDen
    ELSE IF d[1] < 0 THEN 0
    ELSE Min(Max(d[2], 0), MAX_RAY_DIST * RayDen)

\* lines 14-39: everything before the loop
RayCall ==
    /\ ray_pc = "call"
    /\ map_x' = TruncDiv(px, RayScale)
    /\ map_y' = TruncDiv(py, RayScale)
    /\ delta_dist_x' = DeltaDist(Cos5(ang))
    /\ delta_dist_y' = DeltaDist(Sin5(ang))
    /\ step_x' = IF Cos5(ang) < 0 THEN -1 ELSE 1
    /\ step_y' = IF Sin5(ang) < 0 THEN -1 ELSE 1
    /\ side_dist_x' = SideDist(Cos5(ang), px, map_x', delta_dist_x')
    /\ side_dist_y' = SideDist(Sin5(ang), py, map_y', delta_dist_y')
    /\ side' = 0
    /\ ray_pc' = "loop"
    /\ UNCHANGED <<grid, px, py, ang, ray_ret, genVars, fpVars, spanVars, extVars>>

\* lines 41-55: one iteration of the while loop
RayStep ==
    /\ ray_pc = "loop"
    /\ IF DistLess(side_dist_x, side_dist_y)
       THEN /\ side_dist_x' = DistAdd(side_dist_x, delta_dist_x)
            /\ map_x' = map_x + step_x
            /\ side' = 0
            /\ UNCHANGED <<side_dist_y, map_y>>
       ELSE /\ side_dist_y' = DistAdd(side_dist_y, delta_dist_y)
            /\ map_y' = map_y + step_y
            /\ side' = 1
            /\ UNCHANGED <<side_dist_x, map_x>>
    /\ IF ~InGrid(grid, map_x', map_y')
       THEN /\ ray_ret' = <<MAX_RAY_DIST * RayDen, side'>>
            /\ ray_pc' = "done"
       ELSE IF grid[map_y'][map_x'] = WALL
       THEN /\ ray_ret' =
                 <<RayClamp(IF side' = 0
                               THEN DistSub(side_dist_x', delta_dist_x)
                               ELSE DistSub(side_dist_y', delta_dist_y)),
                   side'>>
            /\ ray_pc' = "done"
       ELSE UNCHANGED <<ray_ret, ray_pc>>
    /\ UNCHANGED <<grid, px, py, ang, delta_dist_x, delta_dist_y, step_x, step_y,
                   genVars, fpVars, spanVars, extVars>>

\* the grid of test_cast_ray_hits_expected_wall_distance
RayTestGrid ==
    [y \in 0..2 |-> [x \in 0..2 |-> IF x = 1 /\ y = 1 THEN OPEN ELSE WALL]]

\* a corridor that is longer than MAX_RAY_DIST and ends in a Wall cell
RayCorridor ==
    [y \in 0..0 |-> [x \in 0..MAX_RAY_DIST + 1 |->
                        IF x = MAX_RAY_DIST + 1 THEN WALL ELSE OPEN]]

\* the grids cast_ray is called on
RayGrids ==
    UNION {[0..h-1 -> [0..w-1 -> {WALL, OPEN}]] :
              w \in 1..MaxRayW, h \in 1..MaxRayH}
    \cup {RayTestGrid, RayCorridor}

\* the origins: every multiple of 1/RayScale in the grid and just outside it
RayCoords(n) == -1..(n * RayScale + 1)

RayInit ==
    /\ grid \in RayGrids
    /\ px \in RayCoords(GridW(grid))
    /\ py \in RayCoords(GridH(grid))
    /\ ang \in 1..Len(RayAngles)
    /\ ray_pc = "call"
    /\ map_x = 0 /\ map_y = 0
    /\ delta_dist_x = <<0, 0>> /\ delta_dist_y = <<0, 0>>
    /\ side_dist_x = <<0, 0>> /\ side_dist_y = <<0, 0>>
    /\ step_x = 0 /\ step_y = 0 /\ side = 0 /\ ray_ret = None
    /\ GenIdle
    /\ FpIdle
    /\ SpanIdle
    /\ ExtIdle

RayNext == RayCall \/ RayStep

SpecRay == RayInit /\ [][RayNext]_vars
SpecRayFair == SpecRay /\ WF_vars(RayNext)

----------------------------------------------------------------------------
(* raycast.py: compute_wall_span *)

(* dist, cam_z and mid are integer numbers of 1/SpanScale; proj is kept as   *)
(* an exact fraction <<numerator, denominator>>.                            *)

\* lines 63-64: proj = height * 1.25 / max(0.0001, dist)
SpanProj(h, d) ==
    IF d * 10000 < SpanScale
    THEN <<12500 * h, 1>>
    ELSE <<5 * h * SpanScale, 4 * d>>

\* lines 65-66: int(mid - (level - cam_z) * proj), level = WALL_HEIGHT or 0
SpanRow(level, pr, cz, m) ==
    TruncDiv(m * pr[2] - (level * SpanScale - cz) * pr[1], SpanScale * pr[2])

\* lines 67-69: swap when inverted
SpanOrderedInverted(top, bot) == IF top < bot THEN <<bot, top>> ELSE <<top, bot>>
SpanOrdered(top, bot) == IF top > bot THEN <<bot, top>> ELSE <<top, bot>>

\* lines 62-69: the whole function
SpanCall ==
    /\ span_pc = "call"
    /\ \E pr \in {SpanProj(height, dist)} :
          span_ret' = SpanOrdered(SpanRow(WALL_HEIGHT, pr, cam_z, mid),
                                  SpanRow(0, pr, cam_z, mid))
    /\ span_pc' = "done"
    /\ UNCHANGED <<grid, height, dist, cam_z, mid, genVars, fpVars, rayVars, extVars>>

SpanInit ==
    /\ span_pc = "call"
    /\ height \in -1..MaxSpanH
    /\ dist \in 0..MaxSpanDist
    /\ cam_z \in (-SpanScale)..(2 * SpanScale)
    /\ mid \in (-SpanScale)..((MaxSpanH + 1) * SpanScale)
    /\ span_ret = None
    /\ grid = << >>
    /\ GenIdle
    /\ FpIdle
    /\ RayIdle
    /\ ExtIdle

SpanNext == SpanCall

SpecSpan == SpanInit /\ [][SpanNext]_vars

----------------------------------------------------------------------------
(* maze.py, movement.py, util.py: the Player and the functions that move it *)
(*                                                                          *)
(* A float is modelled as a fixed-point number: an integer number of        *)
(* 1/Scale, products and quotients truncated toward zero.  Lengths are in   *)
(* cells, angles in radians, times in seconds, all in units of 1/Scale.     *)

\* n/d as a fixed-point number
Fx(n, d) == (n * Scale) \div d
\* the float product a * b
Mul(a, b) == TruncDiv(a * b, Scale)
\* Python's int(v): truncation toward zero
int(v) == TruncDiv(v, Scale)

(* constants.py *)
MOVE_SPEED == Fx(32, 10)
ROT_SPEED == Fx(22, 10)
PITCH_SPEED == Fx(17, 10)
PITCH_MAX == Fx(1309, 1000)            \* math.radians(75.0)
FREE_ACCEL == 18 * Scale
FREE_MAX_V == 6 * Scale
FREE_DAMP == 12 * Scale
FREE_MAX_Z == 6 * Scale

\* math.pi
PI == Fx(31416, 10000)
HALF_PI == Fx(15708, 10000)

\* util.clamp
clamp(v, lo, hi) == IF v < lo THEN lo ELSE IF v > hi THEN hi ELSE v

\* util.normalize_angle: the two while loops
RECURSIVE NormUp(_)
NormUp(a) == IF a < -PI THEN NormUp(a + 2 * PI) ELSE a
RECURSIVE NormDown(_)
NormDown(a) == IF a > PI THEN NormDown(a - 2 * PI) ELSE a
normalize_angle(a) == Once(a, LAMBDA v : Once(NormUp(v), LAMBDA u : NormDown(u)))

\* math.sin and math.cos: the Taylor polynomials on [0, pi/2], extended by
\* the symmetries of the circle
SinPoly(v) ==
    LET v2 == Mul(v, v)
    IN  Mul(v, Scale - Mul(v2 \div 6, Scale - Mul(v2 \div 20, Scale - v2 \div 42)))
CosPoly(v) ==
    LET v2 == Mul(v, v)
    IN  Scale - Mul(v2 \div 2,
                    Scale - Mul(v2 \div 12, Scale - Mul(v2 \div 30, Scale - v2 \div 56)))
Sin(a) ==
    Once(normalize_angle(a), LAMBDA b :
        LET c == Abs(b)
            s == IF c > HALF_PI THEN SinPoly(PI - c) ELSE SinPoly(c)
        IN  IF b < 0 THEN -s ELSE s)
Cos(a) ==
    Once(Abs(normalize_angle(a)), LAMBDA c :
        IF c > HALF_PI THEN -CosPoly(PI - c) ELSE CosPoly(c))

(* maze.py *)
is_wall(g, cx, cy) ==
    IF cy < 0 \/ cy >= GridH(g) \/ cx < 0 \/ cx >= GridW(g)
    THEN TRUE
    ELSE g[cy][cx] = WALL

cell_floor_height(g, cx, cy) ==
    IF cy < 0 \/ cy >= GridH(g) \/ cx < 0 \/ cx >= GridW(g)
    THEN WALL_HEIGHT * Scale
    ELSE IF g[cy][cx] = WALL THEN WALL_HEIGHT * Scale ELSE 0

\* can_enter_cell without the tolerance
can_enter_cell_exact(g, fx, fy, z_feet) ==
    z_feet >= cell_floor_height(g, int(fx), int(fy))

can_enter_cell(g, fx, fy, z_feet) ==
    LET floor == cell_floor_height(g, int(fx), int(fy))
    IN  z_feet >= floor - Fx(1, 100)

\* resolve_floor_collision without the two assignments of vz
resolve_floor_collision_keep_vz(g, p) ==
    LET floor == cell_floor_height(g, int(p.x), int(p.y))
        p1 == IF p.z < floor THEN [p EXCEPT !.z = floor] ELSE p
    IN  IF p1.z > FREE_MAX_Z THEN [p1 EXCEPT !.z = FREE_MAX_Z] ELSE p1

\* resolve_floor_collision with vz zeroed by every clamp
resolve_floor_collision_zero_vz(g, p) ==
    LET floor == cell_floor_height(g, int(p.x), int(p.y))
        p1 == IF p.z < floor THEN [p EXCEPT !.z = floor, !.vz = 0] ELSE p
    IN  IF p1.z > FREE_MAX_Z THEN [p1 EXCEPT !.z = FREE_MAX_Z, !.vz = 0] ELSE p1

resolve_floor_collision(g, p0) ==
    Once(p0, LAMBDA p :
        LET floor == cell_floor_height(g, int(p.x), int(p.y))
            p1 == IF p.z < floor
                  THEN [p EXCEPT !.z = floor, !.vz = IF p.vz < 0 THEN 0 ELSE p.vz]
                  ELSE p
        IN  IF p1.z > FREE_MAX_Z
            THEN [p1 EXCEPT !.z = FREE_MAX_Z, !.vz = IF p1.vz > 0 THEN 0 ELSE p1.vz]
            ELSE p1)

(* movement.py *)
\* the velocity after acceleration or damping, not clamped
FreeVelocityUnclamped(p, vd, t) ==
    IF vd > 0 THEN p.vz + Mul(FREE_ACCEL, t)
    ELSE IF vd < 0 THEN p.vz - Mul(FREE_ACCEL, t)
    ELSE Mul(p.vz, Scale - Min(Scale, Mul(FREE_DAMP, t)))

\* update_free_vertical: the velocity after acceleration or damping, clamped
FreeVelocity(p, vd, t) ==
    LET vz1 == IF vd > 0 THEN p.vz + Mul(FREE_ACCEL, t)
               ELSE IF vd < 0 THEN p.vz - Mul(FREE_ACCEL, t)
               ELSE LET k == Min(Scale, Mul(FREE_DAMP, t))
                    IN  Mul(p.vz, Scale - k)
    IN  clamp(vz1, -FREE_MAX_V, FREE_MAX_V)

\* update_free_vertical: the Player after the integration, before the clamp
FreeIntegrated(p, vd, t) ==
    Once(FreeVelocity(p, vd, t), LAMBDA v :
        [p EXCEPT !.vz = v, !.z = p.z + Mul(v, t)])

update_free_vertical(g, p, vd, t) ==
    resolve_floor_collision(g, FreeIntegrated(p, vd, t))

\* the candidate position <<nx, ny>> of a horizontal move
MoveTarget(p, fwd, t) ==
    Once(Mul(fwd * MOVE_SPEED, t), LAMBDA move :
        <<p.x + Mul(Cos(p.ang), move), p.y + Mul(Sin(p.ang), move)>>)

\* the wall test of the second axis, with the Player p1 the first test left
DefaultYBlockedFromOldX(g, p, p1, ny) == is_wall(g, int(p.x), int(ny))
DefaultYBlockedNever(g, p, p1, ny) == FALSE
DefaultYBlocked(g, p, p1, ny) == is_wall(g, int(p1.x), int(ny))

move_horizontal_default(g, p0, fwd, t) ==
    Once(p0, LAMBDA p :
    Once(MoveTarget(p, fwd, t), LAMBDA n :
        LET p1 == IF ~is_wall(g, int(n[1]), int(p.y)) THEN [p EXCEPT !.x = n[1]] ELSE p
        IN  IF ~DefaultYBlocked(g, p, p1, n[2]) THEN [p1 EXCEPT !.y = n[2]] ELSE p1))

move_horizontal_free(g, p0, fwd, t) ==
    Once(p0, LAMBDA p :
    Once(MoveTarget(p, fwd, t), LAMBDA n :
        LET p1 == IF can_enter_cell(g, n[1], p.y, p.z) THEN [p EXCEPT !.x = n[1]] ELSE p
            p2 == IF can_enter_cell(g, p1.x, n[2], p1.z) THEN [p1 EXCEPT !.y = n[2]]
                  ELSE p1
        IN  resolve_floor_collision(g, p2)))

\* the while loop of demo_walk_step: <<idx, returned>>
RECURSIVE DemoWalkSkip(_, _, _)
DemoWalkSkip(pth, cell, idx) ==
    IF idx + 1 < Len(pth) /\ cell = pth[idx + 2]
    THEN IF idx + 1 >= Len(pth) - 1
         THEN <<idx + 1, TRUE>>
         ELSE DemoWalkSkip(pth, cell, idx + 1)
    ELSE <<idx, FALSE>>

\* the heading toward the east, wherever the next path cell is
DemoWalkDesiredEast(ddx, ddy) == 0

\* the heading toward the next path cell
DemoWalkDesired(ddx, ddy) ==
    IF ddx > 0 THEN 0
    ELSE IF ddx < 0 THEN PI
    ELSE IF ddy > 0 THEN HALF_PI
    ELSE -HALF_PI

\* what a call of demo_walk_step does: it returns at once ("return"), turns
\* ("rotate") or moves ("translate"); the idx it returns, the desired heading
\* and its difference to the heading
DemoWalkPlan(p, pth, idx) ==
    IF pth = << >> \/ idx >= Len(pth) - 1
    THEN [kind |-> "return", idx |-> idx, desired |-> 0, diff |-> 0]
    ELSE
      LET cur_cell == <<int(p.x), int(p.y)>>
          sk == DemoWalkSkip(pth, cur_cell, idx)
      IN  IF sk[2]
          THEN [kind |-> "return", idx |-> sk[1], desired |-> 0, diff |-> 0]
          ELSE
            LET nxt == pth[sk[1] + 2]
                desired == DemoWalkDesired(nxt[1] - cur_cell[1], nxt[2] - cur_cell[2])
                diff == normalize_angle(desired - p.ang)
            IN  [kind |-> IF Abs(diff) > Fx(7, 100) THEN "rotate" ELSE "translate",
                 idx |-> sk[1], desired |-> desired, diff |-> diff]

\* demo_walk_step without its returns before the rotation: it moves on
demo_walk_step_no_return(g, p0, pth, idx, t) ==
    Once(p0, LAMBDA p :
    Once(DemoWalkPlan(p, pth, idx), LAMBDA plan :
    Once(MoveTarget(p, 1, t), LAMBDA n :
        LET max_rot == Mul(ROT_SPEED, t)
            p1 == IF ~is_wall(g, int(n[1]), int(p.y)) THEN [p EXCEPT !.x = n[1]] ELSE p
            p2 == IF ~is_wall(g, int(p1.x), int(n[2])) THEN [p1 EXCEPT !.y = n[2]] ELSE p1
        IN  IF plan.kind = "rotate"
            THEN [player |-> [p EXCEPT !.ang = normalize_angle(
                                 p.ang + clamp(plan.diff, -max_rot, max_rot))],
                  idx |-> plan.idx]
            ELSE [player |-> p2, idx |-> plan.idx])))

\* demo_walk_step that moves on while it turns
demo_walk_step_turning_walk(g, p0, pth, idx, t) ==
    Once(p0, LAMBDA p :
    Once(DemoWalkPlan(p, pth, idx), LAMBDA plan :
    Once(MoveTarget(p, 1, t), LAMBDA n :
        LET max_rot == Mul(ROT_SPEED, t)
            p1 == IF ~is_wall(g, int(n[1]), int(p.y)) THEN [p EXCEPT !.x = n[1]] ELSE p
            p2 == IF ~is_wall(g, int(p1.x), int(n[2])) THEN [p1 EXCEPT !.y = n[2]] ELSE p1
        IN  CASE plan.kind = "return" -> [player |-> p, idx |-> plan.idx]
              [] plan.kind = "rotate" ->
                   [player |-> [p2 EXCEPT !.ang = normalize_angle(
                                    p.ang + clamp(plan.diff, -max_rot, max_rot))],
                    idx |-> plan.idx]
              [] plan.kind = "translate" -> [player |-> p2, idx |-> plan.idx])))

\* demo_walk_step: the Player it leaves and the idx it returns
demo_walk_step(g, p0, pth, idx, t) ==
    Once(p0, LAMBDA p :
    Once(DemoWalkPlan(p, pth, idx), LAMBDA plan :
    Once(MoveTarget(p, 1, t), LAMBDA n :
        LET max_rot == Mul(ROT_SPEED, t)
            p1 == IF ~is_wall(g, int(n[1]), int(p.y)) THEN [p EXCEPT !.x = n[1]] ELSE p
            p2 == IF ~is_wall(g, int(p1.x), int(n[2])) THEN [p1 EXCEPT !.y = n[2]] ELSE p1
        IN  CASE plan.kind = "return" -> [player |-> p, idx |-> plan.idx]
              [] plan.kind = "rotate" ->
                   [player |-> [p EXCEPT !.ang = normalize_angle(
                                    p.ang + clamp(plan.diff, -max_rot, max_rot))],
                    idx |-> plan.idx]
              [] plan.kind = "translate" -> [player |-> p2, idx |-> plan.idx])))

(* The calls of the movement functions. *)
ResolveFloorCollision ==
    /\ mv_pc = "call" /\ mv_op = "resolve_floor_collision"
    /\ player' = resolve_floor_collision(grid, player)
    /\ mv_pc' = "done"
    /\ UNCHANGED <<grid, demo_path, demo_idx, mv_op, forward, vert_dir, dt, old_player, old_idx,
                   genVars, fpVars, rayVars, spanVars, brVars, cellVars, gameVars>>

UpdateFreeVertical ==
    /\ mv_pc = "call" /\ mv_op = "update_free_vertical"
    /\ player' = update_free_vertical(grid, player, vert_dir, dt)
    /\ mv_pc' = "done"
    /\ UNCHANGED <<grid, demo_path, demo_idx, mv_op, forward, vert_dir, dt, old_player, old_idx,
                   genVars, fpVars, rayVars, spanVars, brVars, cellVars, gameVars>>

MoveHorizontalDefault ==
    /\ mv_pc = "call" /\ mv_op = "move_horizontal_default"
    /\ player' = move_horizontal_default(grid, player, forward, dt)
    /\ mv_pc' = "done"
    /\ UNCHANGED <<grid, demo_path, demo_idx, mv_op, forward, vert_dir, dt, old_player, old_idx,
                   genVars, fpVars, rayVars, spanVars, brVars, cellVars, gameVars>>

MoveHorizontalFree ==
    /\ mv_pc = "call" /\ mv_op = "move_horizontal_free"
    /\ player' = move_horizontal_free(grid, player, forward, dt)
    /\ mv_pc' = "done"
    /\ UNCHANGED <<grid, demo_path, demo_idx, mv_op, forward, vert_dir, dt, old_player, old_idx,
                   genVars, fpVars, rayVars, spanVars, brVars, cellVars, gameVars>>

DemoWalkStep ==
    /\ mv_pc = "call" /\ mv_op = "demo_walk_step"
    /\ \E r \in {demo_walk_step(grid, player, demo_path, demo_idx, dt)} :
          /\ player' = r.player
          /\ demo_idx' = r.idx
    /\ mv_pc' = "done"
    /\ UNCHANGED <<grid, demo_path, mv_op, forward, vert_dir, dt, old_player, old_idx,
                   genVars, fpVars, rayVars, spanVars, brVars, cellVars, gameVars>>

\* the grids the functions are called on: every 2 by 2 block of cells
MvGrids == [0..1 -> [0..1 -> {WALL, OPEN}]]

\* positions: the centres of the cells of the grid and of the cells around it
MvCentres(n) == {k * Scale + Fx(1, 2) : k \in -1..n}
\* positions: every multiple of 1/MvSteps of a cell, from -1/2 to n + 1/2
MvCoords(n) == {Fx(k, MvSteps) : k \in -(MvSteps \div 2)..(n * MvSteps + MvSteps \div 2)}
\* heights below, between, at and above the floor heights and FREE_MAX_Z
MvHeights == {0, Fx(1, 2), Fx(98, 100), Fx(995, 1000), WALL_HEIGHT * Scale,
              3 * Scale, FREE_MAX_Z - Fx(1, 10), FREE_MAX_Z, FREE_MAX_Z + Fx(1, 2)}
MvSpeeds == {-FREE_MAX_V, -Scale, 0, Scale, FREE_MAX_V}
\* headings: the axes, the diagonals and headings near an axis
MvAngles == {0, Fx(5, 100), -Fx(5, 100), Fx(785, 1000), HALF_PI, HALF_PI - Fx(5, 100),
             -Fx(2356, 1000), PI, -HALF_PI}
\* frame times: multiples of 1/16 s, and one second
MvDts == {Fx(k, 16) : k \in 0..MaxDt16} \cup {Scale}

\* the adjacent cells of a cell
MvSteps4(c) == {<<c[1] + 1, c[2]>>, <<c[1] - 1, c[2]>>, <<c[1], c[2] + 1>>,
                <<c[1], c[2] - 1>>}
\* the paths demo_walk_step is given: the empty list, and the lists of
\* distinct adjacent Open cells that find_path_cells returns
MvPaths(g) ==
    LET C == {c \in Cells(GridW(g), GridH(g)) : g[c[2]][c[1]] = OPEN}
        N(a) == {e \in C : e \in MvSteps4(a)}
    IN  {<< >>} \cup {<<a>> : a \in C}
        \cup UNION {{<<a, b>> : b \in N(a)} : a \in C}
        \cup UNION {UNION {{<<a, b, c>> : c \in N(b) \ {a}} : b \in N(a)} : a \in C}

Pose(vx, vy, vz, va, vp, vv) ==
    [x |-> vx, y |-> vy, z |-> vz, ang |-> va, pitch |-> vp, vz |-> vv]

\* the calls of one function: [player, forward, vert_dir, dt, path, idx]
MvCall(p, f, v, t, pth, i) ==
    [player |-> p, forward |-> f, vert_dir |-> v, dt |-> t, path |-> pth, idx |-> i]

MvCalls(g, op) ==
    LET W == GridW(g)
        H == GridH(g)
    IN  CASE op = "resolve_floor_collision" ->
               {MvCall(Pose(vx, vy, vz, Fx(785, 1000), Fx(1, 2), vv), 0, 0, 0, None, 0) :
                   vx \in MvCentres(W), vy \in MvCentres(H), vz \in MvHeights,
                   vv \in MvSpeeds}
          [] op = "update_free_vertical" ->
               {MvCall(Pose(vx, Fx(1, 2), vz, 0, 0, vv), 0, v, t, None, 0) :
                   vx \in MvCentres(W), vz \in MvHeights, vv \in MvSpeeds,
                   v \in {-1, 0, 1}, t \in MvDts}
          [] op = "move_horizontal_default" ->
               {MvCall(Pose(vx, vy, 0, va, 0, 0), f, 0, t, None, 0) :
                   vx \in MvCoords(W), vy \in MvCoords(H), va \in MvAngles,
                   f \in {-1, 1}, t \in MvDts}
          [] op = "move_horizontal_free" ->
               {MvCall(Pose(vx, vy, vz, va, 0, -Scale), f, 0, t, None, 0) :
                   vx \in MvCoords(W), vy \in MvCoords(H),
                   vz \in {0, Fx(98, 100), Fx(995, 1000), WALL_HEIGHT * Scale, 3 * Scale},
                   va \in {0, Fx(785, 1000), -HALF_PI}, f \in {-1, 1},
                   t \in {Fx(1, 16), Fx(1, 4)}}
          [] op = "demo_walk_step" ->
               UNION {{MvCall(Pose(vx, vy, 0, va, 0, 0), 0, 0, t, pth, i) :
                          vx \in MvCoords(W), vy \in MvCoords(H),
                          va \in {0, Fx(5, 100), -Fx(5, 100), Fx(3, 10),
                                  HALF_PI - Fx(5, 100), PI},
                          t \in {Fx(1, 16), Fx(1, 4)}, i \in {0, 1}} :
                      pth \in MvPaths(g)}

MvOps == {"resolve_floor_collision", "update_free_vertical",
          "move_horizontal_default", "move_horizontal_free", "demo_walk_step"}

MvInit ==
    /\ grid \in MvGrids
    /\ mv_pc = "call"
    /\ mv_op \in MvOps
    /\ \E c \in MvCalls(grid, mv_op) :
          /\ player = c.player
          /\ old_player = c.player
          /\ forward = c.forward
          /\ vert_dir = c.vert_dir
          /\ dt = c.dt
          /\ demo_path = c.path
          /\ demo_idx = c.idx
          /\ old_idx = c.idx
    /\ GenIdle
    /\ FpIdle
    /\ RayIdle
    /\ SpanIdle
    /\ BrIdle /\ GameIdle /\ CellIdle

MvNext ==
    \/ ResolveFloorCollision
    \/ UpdateFreeVertical
    \/ MoveHorizontalDefault
    \/ MoveHorizontalFree
    \/ DemoWalkStep

SpecMove == MvInit /\ [][MvNext]_vars

----------------------------------------------------------------------------
(* render_braille.py: the glyph of one terminal cell *)

\* a | b on naturals
RECURSIVE BitOr(_, _)
BitOr(a, b) ==
    IF a = 0 THEN b
    ELSE IF b = 0 THEN a
    ELSE 2 * BitOr(a \div 2, b \div 2) + (IF a % 2 = 1 \/ b % 2 = 1 THEN 1 ELSE 0)

\* a numbering of the dots row by row
BRAILLE_BITS_BY_ROW(sub_col, sub_row) ==
    CASE sub_row = 0 -> IF sub_col = 0 THEN 1 ELSE 2
      [] sub_row = 1 -> IF sub_col = 0 THEN 4 ELSE 8
      [] sub_row = 2 -> IF sub_col = 0 THEN 16 ELSE 32
      [] sub_row = 3 -> IF sub_col = 0 THEN 64 ELSE 128

\* _BRAILLE_BITS[(sub_col, sub_row)]
BRAILLE_BITS(sub_col, sub_row) ==
    CASE sub_col = 0 /\ sub_row = 0 -> 1     \* 0x01
      [] sub_col = 0 /\ sub_row = 1 -> 2     \* 0x02
      [] sub_col = 0 /\ sub_row = 2 -> 4     \* 0x04
      [] sub_col = 0 /\ sub_row = 3 -> 64    \* 0x40
      [] sub_col = 1 /\ sub_row = 0 -> 8     \* 0x08
      [] sub_col = 1 /\ sub_row = 1 -> 16    \* 0x10
      [] sub_col = 1 /\ sub_row = 2 -> 32    \* 0x20
      [] sub_col = 1 /\ sub_row = 3 -> 128   \* 0x80

\* 0x2800, the code point of the empty Braille pattern
BRAILLE_BASE == 10240

\* the two nested loops of cell(): sub-pixel k = 4 * sub_col + sub_row, from
\* k on, with the bits set so far
RECURSIVE BrailleLoop(_, _, _, _, _)
BrailleLoop(tops, bots, y, k, bits) ==
    IF k = 8 THEN bits
    ELSE LET sub_col == k \div 4
             sub_row == k % 4
             tp == tops[sub_col + 1]
             bp == bots[sub_col + 1]
             py0 == 4 * y + sub_row
         IN  BrailleLoop(tops, bots, y, k + 1,
                         IF tp <= py0 /\ py0 < bp
                         THEN BitOr(bits, BRAILLE_BITS(sub_col, sub_row))
                         ELSE bits)

\* cell(): chr(0x2800 + bits) when a bit is set
BrailleCell ==
    /\ br_pc = "call"
    /\ \E bits \in {BrailleLoop(br_top, br_bot, br_y, 0, 0)} :
          br_ret' = IF bits # 0 THEN <<BRAILLE_BASE + bits>> ELSE None
    /\ br_pc' = "done"
    /\ UNCHANGED <<grid, br_y, br_top, br_bot, genVars, fpVars, rayVars, spanVars,
                   mvVars, gameVars, cellVars>>

\* the spans of a sub-column: pixel rows from above the view to below it,
\* top not below bottom as compute_wall_span returns them
BrRows == -1..(4 * MaxBrRows + 1)
BrSpans == {s \in BrRows \X BrRows : s[1] <= s[2]}

BrInit ==
    /\ br_pc = "call"
    /\ br_y \in 0..(MaxBrRows - 1)
    /\ \E s0 \in BrSpans, s1 \in BrSpans :
          /\ br_top = <<s0[1], s1[1]>>
          /\ br_bot = <<s0[2], s1[2]>>
    /\ br_ret = None
    /\ grid = << >>
    /\ GenIdle
    /\ FpIdle
    /\ RayIdle
    /\ SpanIdle
    /\ MvIdle /\ GameIdle /\ CellIdle

BrNext == BrailleCell

SpecBraille == BrInit /\ [][BrNext]_vars

----------------------------------------------------------------------------
(* render_text.py, render_halfblock.py, render_braille.py: what each draws  *)
(* in one terminal cell of row y.  The class of a cell is "wall" (a wall    *)
(* glyph), "ceiling" (a blank with A_NORMAL), "floor" (floor_ch, or the     *)
(* floor gradient, or floor_ch_flat) or "top" (top_ch, the top of a wall    *)
(* seen from above).  mask is None when use_floorcast is off or             *)
(* row_top_mask is None, else <<row_top_mask[x]>>.                          *)

\* render_text: the column has the wall span top..bot in rows
text_class(y, top, bot, mask, view_h) ==
    IF y < top THEN "ceiling"
    ELSE IF y >= bot
    THEN IF mask # None
         THEN IF mask[1] THEN "top" ELSE "floor"
         ELSE "floor"
    ELSE "wall"

\* render_halfblock.cell: the column has the wall span tp..bp in pixel rows,
\* two to a terminal row
halfblock_class(y, tp, bp, mask, view_h) ==
    LET y_top == 2 * y
        y_bot == y_top + 1
        top_on == tp <= y_top /\ y_top < bp
        bot_on == tp <= y_bot /\ y_bot < bp
    IN  IF top_on \/ bot_on THEN "wall"
        ELSE IF mask # None
        THEN IF mask[1] THEN "top" ELSE "floor"
        ELSE IF y < view_h \div 2 THEN "ceiling"
        ELSE "floor"

\* render_braille.cell: the two sub-columns have the wall spans
\* tops[i]..bots[i] in pixel rows, four to a terminal row
braille_class(y, tops, bots, mask, view_h) ==
    IF BrailleLoop(tops, bots, y, 0, 0) # 0 THEN "wall"
    ELSE IF mask # None
    THEN IF mask[1] THEN "top" ELSE "floor"
    ELSE IF y < view_h \div 2 THEN "ceiling"
    ELSE "floor"

\* the cell of row cl_y in a column whose wall covers the terminal rows
\* cl_top..cl_bot-1, drawn by the three renderers: the same span is
\* 2 * cl_top..2 * cl_bot in the pixel rows of render_halfblock and
\* 4 * cl_top..4 * cl_bot in those of render_braille (both sub-columns)
RenderCell ==
    /\ cl_pc = "call"
    /\ cl_ret' = [text |-> text_class(cl_y, cl_top, cl_bot, cl_mask, cl_view_h),
                  halfblock |-> halfblock_class(cl_y, 2 * cl_top, 2 * cl_bot,
                                                cl_mask, cl_view_h),
                  braille |-> braille_class(cl_y, <<4 * cl_top, 4 * cl_top>>,
                                            <<4 * cl_bot, 4 * cl_bot>>,
                                            cl_mask, cl_view_h)]
    /\ cl_pc' = "done"
    /\ UNCHANGED <<grid, cl_view_h, cl_y, cl_top, cl_bot, cl_mask,
                   genVars, fpVars, rayVars, spanVars, mvVars, brVars, gameVars>>

\* every row of every view of 1 to MaxViewH rows, every wall span from above
\* the view to below it (top <= bottom), every value of the mask
CellInit ==
    /\ cl_pc = "call"
    /\ cl_view_h \in 1..MaxViewH
    /\ cl_y \in 0..(cl_view_h - 1)
    /\ cl_top \in -1..(cl_view_h + 1)
    /\ cl_bot \in cl_top..(cl_view_h + 1)
    /\ cl_mask \in {None, <<TRUE>>, <<FALSE>>}
    /\ cl_ret = None
    /\ grid = << >>
    /\ GenIdle
    /\ FpIdle
    /\ RayIdle
    /\ SpanIdle
    /\ MvIdle /\ BrIdle /\ GameIdle

CellNext == RenderCell

SpecCell == CellInit /\ [][CellNext]_vars

----------------------------------------------------------------------------
(* game.py: the game loop *)

(* constants.py *)
HOLD_TIMEOUT == Fx(14, 100)
MOUSE_SENS_DEFAULT == Fx(12, 1000)
Modes == {"default", "free", "demo_default", "demo_free"}
ManualModes == {"default", "free"}
DemoModes == {"demo_default", "demo_free"}

\* math.hypot: the integer square root of dx^2 + dy^2, by bisection
RECURSIVE ISqrt(_, _, _)
ISqrt(n, lo, hi) ==
    IF lo >= hi THEN lo
    ELSE Once((lo + hi + 1) \div 2, LAMBDA m :
             IF m * m <= n THEN ISqrt(n, m, hi) ELSE ISqrt(n, lo, m - 1))
HypotNear(dx, dy) ==
    Once(dx * dx + dy * dy, LAMBDA n :
        Once(Abs(dx) + Abs(dy), LAMBDA hi : ISqrt(n, 0, hi)))
\* beyond 30 cells the operands are taken in steps of 16/Scale, which keeps
\* the squares within the integers of TLC
Hypot(dx, dy) ==
    IF Abs(dx) + Abs(dy) > 30 * Scale
    THEN 16 * HypotNear(Abs(dx) \div 16, Abs(dy) \div 16)
    ELSE HypotNear(dx, dy)

\* math.atan2 in the first quadrant (y >= 0, x >= 0, not both 0): the angle a
\* of [0, pi/2] where sin(a) * x - cos(a) * y changes its sign, by bisection
RECURSIVE AtanQ(_, _, _, _)
AtanQ(y, x, lo, hi) ==
    IF hi - lo <= 1 THEN lo
    ELSE Once((lo + hi) \div 2, LAMBDA m :
             IF Sin(m) * x - Cos(m) * y <= 0
             THEN AtanQ(y, x, m, hi)
             ELSE AtanQ(y, x, lo, m))
\* math.atan2(y, x): the quadrants
Atan2Of(y, x) ==
    LET a == IF x = 0 THEN HALF_PI
             ELSE IF y = 0 THEN 0
             ELSE AtanQ(Abs(y), Abs(x), 0, HALF_PI)
    IN  IF x = 0 /\ y = 0 THEN 0
        ELSE IF x >= 0 /\ y >= 0 THEN a
        ELSE IF x < 0 /\ y >= 0 THEN PI - a
        ELSE IF x < 0 THEN -(PI - a)
        ELSE -a
Atan2(y0, x0) == Once(y0, LAMBDA y : Once(x0, LAMBDA x : Atan2Of(y, x)))

(* movement.py: demo_free_step *)
\* the height of the floor of the goal cell, at every distance
DemoFreeTargetGoalFloor(g, p, gxy) == cell_floor_height(g, gxy[1], gxy[2])

\* the height the flight autopilot steers to
DemoFreeTargetZ(g, p, gxy) ==
    LET tx == gxy[1] * Scale + Fx(1, 2)
        ty == gxy[2] * Scale + Fx(1, 2)
    IN  IF Hypot(tx - p.x, ty - p.y) > 2 * Scale
        THEN Fx(135, 100)
        ELSE cell_floor_height(g, gxy[1], gxy[2])

\* the vertical intent it passes to update_free_vertical
DemoFreeVdir(g, p, gxy) ==
    LET target_z == DemoFreeTargetZ(g, p, gxy)
    IN  IF p.z < target_z - Fx(5, 100) THEN 1
        ELSE IF p.z > target_z + Fx(5, 100) THEN -1
        ELSE 0

\* the Player after the call of update_free_vertical
DemoFreeVertical(g, p, gxy, t) ==
    update_free_vertical(g, p, DemoFreeVdir(g, p, gxy), t)

demo_free_step(g, p, gxy, t) ==
    LET tx == gxy[1] * Scale + Fx(1, 2)
        ty == gxy[2] * Scale + Fx(1, 2)
    IN  Once(DemoFreeVertical(g, p, gxy, t), LAMBDA p1 :
        Once(normalize_angle(Atan2(ty - p1.y, tx - p1.x) - p1.ang), LAMBDA diff :
            LET max_rot == Mul(ROT_SPEED, t)
                p2 == IF Abs(diff) > Fx(1, 100)
                      THEN [p1 EXCEPT !.ang = normalize_angle(
                                         p1.ang + clamp(diff, -max_rot, max_rot))]
                      ELSE p1
            IN  IF Abs(diff) < Fx(45, 100)
                THEN move_horizontal_free(g, p2, 1, t)
                ELSE p2))

(* maze.py: find_path_cells as a function of its arguments.  pv is the dict *)
(* prev (None for the start), qq the deque.                                 *)
\* the for loop that finds no cell to visit
PathExpandNone(g, c, pv, qq) == <<pv, qq>>

\* the for loop over the directions at the popped cell c: <<prev, q>>
PathExpand(g, c, pv, qq) ==
    LET nb == [i \in 1..Len(FpDirs) |-> <<c[1] + FpDirs[i][1], c[2] + FpDirs[i][2]>>]
        Fresh(n) == /\ InGrid(g, n[1], n[2])
                    /\ g[n[2]][n[1]] = OPEN
                    /\ n \notin DOMAIN pv
        new == SelectSeq(nb, Fresh)
    IN  <<pv @@ [n \in {new[i] : i \in 1..Len(new)} |-> c], qq \o new>>

\* one pass of the while loop over the deque, from s0 = <<prev, q>>; the
\* state is left as it is once the loop has ended.  (The state is bound
\* once, as the value of a variable, in each of the loop operators.)
PathBfsStep(g, gl, s0) ==
    CHOOSE r \in {IF s[2] = << >> \/ Head(s[2]) = gl THEN s
                  ELSE PathExpand(g, Head(s[2]), s[1], Tail(s[2])) : s \in {s0}} : TRUE
\* four passes, sixteen passes
PathBfs4(g, gl, s) ==
    PathBfsStep(g, gl, PathBfsStep(g, gl, PathBfsStep(g, gl, PathBfsStep(g, gl, s))))
PathBfs16(g, gl, s) ==
    PathBfs4(g, gl, PathBfs4(g, gl, PathBfs4(g, gl, PathBfs4(g, gl, s))))
\* the while loop: the dict prev it leaves
RECURSIVE PathBfs(_, _, _)
PathBfs(g, gl, s0) ==
    CHOOSE r \in {IF s[2] = << >> \/ Head(s[2]) = gl THEN s[1]
                  ELSE PathBfs(g, gl, PathBfs16(g, gl, s)) : s \in {s0}} : TRUE

\* one pass of the loop that follows prev from the goal, from s0 = <<cur, path>>
\* (path is kept reversed); the state is left as it is once cur is None
PathBuildStep(pv, s0) ==
    CHOOSE r \in {IF s[1] = None THEN s ELSE <<pv[s[1]], <<s[1]>> \o s[2]>> : s \in {s0}} : TRUE
PathBuild4(pv, s) ==
    PathBuildStep(pv, PathBuildStep(pv, PathBuildStep(pv, PathBuildStep(pv, s))))
PathBuild16(pv, s) ==
    PathBuild4(pv, PathBuild4(pv, PathBuild4(pv, PathBuild4(pv, s))))
RECURSIVE PathBuild(_, _)
PathBuild(pv, s0) ==
    CHOOSE r \in {IF s[1] = None THEN s[2] ELSE PathBuild(pv, PathBuild16(pv, s)) : s \in {s0}} : TRUE

find_path_cells(g, s, gl) ==
    IF ~(InGrid(g, s[1], s[2]) /\ InGrid(g, gl[1], gl[2])) THEN <<s>>
    ELSE CHOOSE r \in {IF gl \notin DOMAIN pv THEN <<s>> ELSE PathBuild(pv, <<gl, << >>>>) :
                       pv \in {PathBfs(g, gl, <<s :> None, <<s>>>>)}} : TRUE

(* maze.py: difficulty_to_size *)
difficulty_to_size(d) ==
    LET dd == clamp(d, 1, 100)
    IN  <<8 + (dd * 50) \div 100, 8 + (dd * 35) \div 100>>

(* generate_maze(cw, ch, rng) in _new_level: two of the mazes the DFS can  *)
(* carve, the serpentines along the rows and along the columns (the DFS    *)
(* that always continues in a straight line and turns at the border        *)
(* visits the cells in this order).                                        *)
RowSnake(cw, ch) ==
    [y \in 0..2 * ch |->
       [x \in 0..2 * cw |->
          IF \/ y % 2 = 1 /\ 1 <= x /\ x <= 2 * cw - 1
             \/ /\ y % 2 = 0 /\ 0 < y /\ y < 2 * ch
                /\ x = (IF ((y \div 2) - 1) % 2 = 0 THEN 2 * cw - 1 ELSE 1)
          THEN OPEN ELSE WALL]]
ColSnake(cw, ch) ==
    [y \in 0..2 * ch |->
       [x \in 0..2 * cw |->
          IF \/ x % 2 = 1 /\ 1 <= y /\ y <= 2 * ch - 1
             \/ /\ x % 2 = 0 /\ 0 < x /\ x < 2 * cw
                /\ y = (IF ((x \div 2) - 1) % 2 = 0 THEN 2 * ch - 1 ELSE 1)
          THEN OPEN ELSE WALL]]
LevelMazes(size) == {RowSnake(size[1], size[2]), ColSnake(size[1], size[2])}

\* _new_level: Player(x=1.5, y=1.5, ...) after resolve_floor_collision
StartPlayer(g) ==
    resolve_floor_collision(
        g, [x |-> Fx(3, 2), y |-> Fx(3, 2), z |-> 0, ang |-> 0, pitch |-> 0, vz |-> 0])
\* _new_level: goal_xy
GoalOf(size) == <<2 * (size[1] - 1) + 1, 2 * (size[2] - 1) + 1>>
\* _new_level: demo_path
StartPath(m, g, gxy) ==
    IF m = "demo_default"
    THEN find_path_cells(g, <<int(StartPlayer(g).x), int(StartPlayer(g).y)>>, gxy)
    ELSE None

\* main: _new_level(settings, ...) with the maze g, and ctrl = ControlState()
StartLevel(m, d, g) ==
    /\ grid' = g
    /\ goal_xy' = GoalOf(difficulty_to_size(d))
    /\ player' = StartPlayer(g)
    /\ demo_path' = StartPath(m, g, GoalOf(difficulty_to_size(d)))
    /\ demo_idx' = 0
    /\ ctrl' = NewControlState
    /\ last_mouse_x' = None
    /\ level_no' = level_no + 1

(* _read_input.  S is the part of the state it reads and writes:           *)
(* [mode, difficulty, ctrl, last_mouse_x, player, demo_path, demo_idx].    *)

\* the time t has passed since the last frame read the clock
Elapse(c, t) ==
    [c EXCEPT !.move_until = IF @ - t < 0 THEN -1 ELSE @ - t,
              !.rot_until = IF @ - t < 0 THEN -1 ELSE @ - t,
              !.pitch_until = IF @ - t < 0 THEN -1 ELSE @ - t,
              !.vert_until = IF @ - t < 0 THEN -1 ELSE @ - t]

Input(t) ==
    [mode |-> mode, difficulty |-> difficulty, ctrl |-> Elapse(ctrl, t),
     last_mouse_x |-> last_mouse_x, player |-> player,
     demo_path |-> demo_path, demo_idx |-> demo_idx]

\* lines 182-187: camera reset
CameraReset(S) ==
    [S EXCEPT !.player = [@ EXCEPT !.pitch = 0,
                                   !.vz = IF S.mode \in {"free", "demo_free"}
                                          THEN 0 ELSE @],
              !.last_mouse_x = None]

\* lines 225-240: the arrow keys
ArrowKeys == {"KEY_LEFT", "KEY_RIGHT", "KEY_UP", "KEY_DOWN"}
ArrowKey(S, key) ==
    CASE key = "KEY_LEFT" ->
           [S EXCEPT !.ctrl.rot_dir = -1, !.ctrl.rot_until = HOLD_TIMEOUT]
      [] key = "KEY_RIGHT" ->
           [S EXCEPT !.ctrl.rot_dir = 1, !.ctrl.rot_until = HOLD_TIMEOUT]
      [] key = "KEY_UP" ->
           [S EXCEPT !.ctrl.pitch_dir = -1, !.ctrl.pitch_until = HOLD_TIMEOUT]
      [] key = "KEY_DOWN" ->
           [S EXCEPT !.ctrl.pitch_dir = 1, !.ctrl.pitch_until = HOLD_TIMEOUT]

\* lines 243-259: w, s, a, d
MoveKeys == {"w", "s", "a", "d"}
MoveKey(S, key) ==
    IF S.mode \notin {"default", "free"} THEN S
    ELSE CASE key = "w" ->
                [S EXCEPT !.ctrl.move_dir = 1, !.ctrl.move_until = HOLD_TIMEOUT]
           [] key = "s" ->
                [S EXCEPT !.ctrl.move_dir = -1, !.ctrl.move_until = HOLD_TIMEOUT]
           [] key = "a" ->
                [S EXCEPT !.ctrl.rot_dir = -1, !.ctrl.rot_until = HOLD_TIMEOUT]
           [] key = "d" ->
                [S EXCEPT !.ctrl.rot_dir = 1, !.ctrl.rot_until = HOLD_TIMEOUT]

\* lines 261-277: space and x (and page up, page down)
VertKeys == {"space", "x"}
VertKey(S, key) ==
    IF S.mode # "free" THEN S
    ELSE IF key = "space"
         THEN [S EXCEPT !.ctrl.vert_dir = 1, !.ctrl.vert_until = HOLD_TIMEOUT]
         ELSE [S EXCEPT !.ctrl.vert_dir = -1, !.ctrl.vert_until = HOLD_TIMEOUT]

\* lines 280-296: a mouse position report at column mx, with mouse_active
MouseMove(S, mx) ==
    LET p == IF S.last_mouse_x # None /\ mx - S.last_mouse_x[1] # 0
             THEN [S.player EXCEPT !.ang = normalize_angle(
                       @ + (mx - S.last_mouse_x[1]) * MOUSE_SENS_DEFAULT)]
             ELSE S.player
    IN  [S EXCEPT !.player = p, !.last_mouse_x = <<mx>>]

\* lines 190-210: the pause menu, left with "resume" after the settings were
\* set to mode m and difficulty d
\* the path that line 202 computes
PausePath(S) == find_path_cells(grid, <<int(S.player.x), int(S.player.y)>>, goal_xy)
\* pth is PausePath(S)
PauseResume(S, m, d, pth) ==
    [S EXCEPT !.mode = m, !.difficulty = d,
              !.demo_path = IF m = "demo_default" THEN pth ELSE None,
              !.demo_idx = IF m = "demo_default" THEN 0 ELSE @]

(* _expire_controls: now > *_until *)
ExpireControls(c) ==
    [c EXCEPT !.move_dir = IF c.move_until < 0 THEN 0 ELSE @,
              !.rot_dir = IF c.rot_until < 0 THEN 0 ELSE @,
              !.pitch_dir = IF c.pitch_until < 0 THEN 0 ELSE @,
              !.vert_dir = IF c.vert_until < 0 THEN 0 ELSE @]

(* _update_simulation *)
\* lines 318-321: the pitch keys
LookPitch(p, c, t) ==
    IF c.pitch_dir # 0
    THEN [p EXCEPT !.pitch = clamp(p.pitch + Mul(c.pitch_dir * PITCH_SPEED, t),
                                   -PITCH_MAX, PITCH_MAX)]
    ELSE p

\* the rotation keys without normalize_angle
LookRotateRaw(m, p, c, t) ==
    IF c.rot_dir # 0 /\ m \in {"default", "free"}
    THEN [p EXCEPT !.ang = p.ang + Mul(c.rot_dir * ROT_SPEED, t)]
    ELSE IF c.rot_dir # 0 /\ m \in {"demo_default", "demo_free"}
    THEN [p EXCEPT !.ang = p.ang + Mul(Mul(c.rot_dir * ROT_SPEED, t), Fx(6, 10))]
    ELSE p

\* lines 323-326: the rotation keys
LookRotate(m, p, c, t) ==
    IF c.rot_dir # 0 /\ m \in {"default", "free"}
    THEN [p EXCEPT !.ang = normalize_angle(p.ang + Mul(c.rot_dir * ROT_SPEED, t))]
    ELSE IF c.rot_dir # 0 /\ m \in {"demo_default", "demo_free"}
    THEN [p EXCEPT !.ang = normalize_angle(
                      p.ang + Mul(Mul(c.rot_dir * ROT_SPEED, t), Fx(6, 10)))]
    ELSE p

\* the manual branches in every mode
ControllerManual(m) ==
    IF m \in {"free", "demo_free"} THEN "manual_free" ELSE "manual"

\* lines 328-347: the branch that runs in mode m
Controller(m) ==
    CASE m = "demo_default" -> "walk"
      [] m = "demo_free" -> "flight"
      [] m = "default" -> "manual"
      [] m = "free" -> "manual_free"

\* the vertical intent a flight branch passes to update_free_vertical
VerticalIntent(m, g, gxy, p, c) ==
    CASE Controller(m) = "flight" -> DemoFreeVdir(g, p, gxy)
      [] Controller(m) = "manual_free" -> c.vert_dir
      [] OTHER -> 0

\* the Player between the two calls of a flight branch: after
\* update_free_vertical, before the horizontal move
AfterVertical(m, g, gxy, p, c, t) ==
    CASE Controller(m) = "flight" -> DemoFreeVertical(g, p, gxy, t)
      [] Controller(m) = "manual_free" -> update_free_vertical(g, p, c.vert_dir, t)
      [] OTHER -> p

\* _update_simulation: [player, demo_path, demo_idx] as it leaves them, and
\* the Player after the look lines (p_look) and after update_free_vertical
\* (p_vert)
UpdateSimulation(m, g, gxy, p, c, dp, di, t) ==
    Once(LookRotate(m, LookPitch(p, c, t), c, t), LAMBDA p_look :
    Once(AfterVertical(m, g, gxy, p_look, c, t), LAMBDA p_vert :
    LET idx == IF dp = None THEN 0 ELSE di
    IN  CASE Controller(m) = "walk" ->
               Once(IF dp = None
                    THEN find_path_cells(g, <<int(p_look.x), int(p_look.y)>>, gxy)
                    ELSE dp, LAMBDA pth :
               Once(demo_walk_step(g, p_look, pth, idx, t), LAMBDA w :
                   [player |-> [w.player EXCEPT !.z = 0, !.vz = 0],
                    demo_path |-> pth, demo_idx |-> w.idx,
                    p_look |-> p_look, p_vert |-> p_vert]))
          [] Controller(m) = "flight" ->
               [player |-> demo_free_step(g, p_look, gxy, t),
                demo_path |-> dp, demo_idx |-> di,
                p_look |-> p_look, p_vert |-> p_vert]
          [] Controller(m) = "manual" ->
               [player |-> [(IF c.move_dir # 0
                             THEN move_horizontal_default(g, p_look, c.move_dir, t)
                             ELSE p_look) EXCEPT !.z = 0, !.vz = 0],
                demo_path |-> dp, demo_idx |-> di,
                p_look |-> p_look, p_vert |-> p_vert]
          [] Controller(m) = "manual_free" ->
               [player |-> IF c.move_dir # 0
                           THEN move_horizontal_free(g, p_vert, c.move_dir, t)
                           ELSE p_vert,
                demo_path |-> dp, demo_idx |-> di,
                p_look |-> p_look, p_vert |-> p_vert]))

(* _check_win *)
check_win(p, gxy) == int(p.x) = gxy[1] /\ int(p.y) = gxy[2]

(* main: one frame of the inner loop in which _read_input returns           *)
(* "continue".  menu: it ran the pause menu; t is dt; S is the state as     *)
(* _read_input leaves it.                                                   *)
Frame(menu, t, S) ==
    /\ frames' = frames + 1
    /\ dt' = t
    /\ old_player' = player
    /\ mode' = S.mode
    /\ difficulty' = S.difficulty
    /\ \E c \in {ExpireControls(S.ctrl)} :
       \E u \in {UpdateSimulation(S.mode, grid, goal_xy, S.player, c,
                                  S.demo_path, S.demo_idx, t)} :
       \E won \in {check_win(u.player, goal_xy)} :
         /\ tick' = [action |-> "continue", menu |-> menu, mode |-> S.mode, p_input |-> S.player,
                     p_look |-> u.p_look, p_vert |-> u.p_vert, p_end |-> u.player,
                     floor_vert |-> cell_floor_height(
                                        grid, int(u.p_vert.x), int(u.p_vert.y)),
                     floor_end |-> cell_floor_height(
                                       grid, int(u.player.x), int(u.player.y)),
                     controller |-> Controller(S.mode),
                     vdir |-> VerticalIntent(S.mode, grid, goal_xy, u.p_look, c),
                     grid0 |-> grid, level0 |-> level_no,
                     difficulty0 |-> difficulty, won |-> won]
         /\ IF won
            THEN \E g \in LevelMazes(difficulty_to_size(S.difficulty)) :
                     StartLevel(S.mode, S.difficulty, g)
            ELSE /\ player' = u.player
                 /\ demo_path' = u.demo_path
                 /\ demo_idx' = u.demo_idx
                 /\ ctrl' = c
                 /\ last_mouse_x' = S.last_mouse_x
                 /\ UNCHANGED <<grid, goal_xy, level_no>>
    /\ UNCHANGED <<game_pc, mv_pc, mv_op, forward, vert_dir, old_idx,
                   genVars, fpVars, rayVars, spanVars, brVars, cellVars>>

\* the inputs of a frame: dt is a short frame or a long stall; the mouse
\* is at the left border or at column MaxMouseX
GameDts == {Fx(1, 16), Fx(619, 100)}
MouseXs == {0, MaxMouseX}
Difficulties == {1, MaxDifficulty}

\* the inner loop of main is running (and the model lets it run on)
Playing == game_pc = "play" /\ frames < MaxFrames

\* no key and no mouse event is pending
FrameNoInput ==
    /\ Playing
    /\ \E t \in GameDts : \E S \in {Input(t)} : Frame(FALSE, t, S)

FrameArrowKey ==
    /\ Playing
    /\ \E t \in GameDts, key \in ArrowKeys :
           \E S \in {ArrowKey(Input(t), key)} : Frame(FALSE, t, S)

FrameMoveKey ==
    /\ Playing
    /\ \E t \in GameDts, key \in MoveKeys :
           \E S \in {MoveKey(Input(t), key)} : Frame(FALSE, t, S)

FrameVertKey ==
    /\ Playing
    /\ \E t \in GameDts, key \in VertKeys :
           \E S \in {VertKey(Input(t), key)} : Frame(FALSE, t, S)

\* two keys are pending and the while loop of _read_input takes both: w or s,
\* then space or x
FrameMoveVertKeys ==
    /\ Playing
    /\ \E t \in GameDts, mk \in {"w", "s"}, vk \in VertKeys :
           \E S \in {VertKey(MoveKey(Input(t), mk), vk)} : Frame(FALSE, t, S)

FrameCameraReset ==
    /\ Playing
    /\ \E t \in GameDts : \E S \in {CameraReset(Input(t))} : Frame(FALSE, t, S)

FrameMouse ==
    /\ Playing
    /\ \E t \in GameDts, mx \in MouseXs :
           \E S \in {MouseMove(Input(t), mx)} : Frame(FALSE, t, S)

\* ESC, the settings are altered in the pause menu, which is left by resume
FramePause ==
    /\ Playing
    /\ \E pth \in {PausePath(Input(0))} :
       \E t \in GameDts, m \in Modes, d \in Difficulties :
           \E S \in {PauseResume(Input(t), m, d, pth)} :
               Frame(TRUE, t, S)

\* ESC and restart in the pause menu: the inner loop is left, _new_level runs
FrameRestart ==
    /\ Playing
    /\ frames' = frames + 1
    /\ old_player' = player
    /\ tick' = [action |-> "restart", menu |-> TRUE, mode |-> mode, p_input |-> player,
                p_look |-> player, p_vert |-> player, p_end |-> player,
                floor_vert |-> cell_floor_height(grid, int(player.x), int(player.y)),
                floor_end |-> cell_floor_height(grid, int(player.x), int(player.y)),
                controller |-> "none", vdir |-> 0, grid0 |-> grid, level0 |-> level_no,
                difficulty0 |-> difficulty, won |-> FALSE]
    /\ \E g \in LevelMazes(difficulty_to_size(difficulty)) :
           StartLevel(mode, difficulty, g)
    /\ UNCHANGED <<game_pc, mode, difficulty, dt, mv_pc, mv_op, forward, vert_dir,
                   old_idx, genVars, fpVars, rayVars, spanVars, brVars, cellVars>>

\* q and the confirmation, or quit in the pause menu: main returns
FrameQuit ==
    /\ Playing
    /\ game_pc' = "quit"
    /\ UNCHANGED <<grid, mvVars, mode, difficulty, ctrl, last_mouse_x, goal_xy,
                   level_no, frames, tick,
                   genVars, fpVars, rayVars, spanVars, brVars, cellVars>>

\* main after the start menu, which set mode and difficulty: the first level
GameInit ==
    /\ game_pc = "play"
    /\ mode \in Modes
    /\ difficulty \in Difficulties
    /\ grid \in LevelMazes(difficulty_to_size(difficulty))
    /\ goal_xy = GoalOf(difficulty_to_size(difficulty))
    /\ player = StartPlayer(grid)
    /\ demo_path = StartPath(mode, grid, goal_xy)
    /\ demo_idx = 0
    /\ ctrl = NewControlState
    /\ last_mouse_x = None
    /\ level_no = 1
    /\ frames = 0
    /\ tick = NoTick
    /\ mv_pc = "idle" /\ mv_op = "" /\ forward = 0 /\ vert_dir = 0 /\ dt = 0
    /\ old_player = NoPlayer /\ old_idx = 0
    /\ GenIdle /\ FpIdle /\ RayIdle /\ SpanIdle /\ BrIdle /\ CellIdle

GameNext ==
    \/ FrameNoInput
    \/ FrameArrowKey
    \/ FrameMoveKey
    \/ FrameVertKey
    \/ FrameMoveVertKeys
    \/ FrameCameraReset
    \/ FrameMouse
    \/ FramePause
    \/ FrameRestart
    \/ FrameQuit

SpecGame == GameInit /\ [][GameNext]_vars

----------------------------------------------------------------------------
(* game.py: a level played by an autopilot, from _new_level to the win.     *)
(* No input is pending: _read_input returns "continue" and leaves the       *)
(* state as it is; _expire_controls, _update_simulation and _check_win run. *)
(* Every frame of a run takes the same time dt.  The level is a maze that   *)
(* generate_maze(cw, ch) returns for 2 <= cw <= MaxDemoW, 2 <= ch <=        *)
(* MaxDemoH (for 2 by 2 cells the two serpentines are all it can return).   *)

DemoSizes == {<<cw, ch>> : cw \in 2..MaxDemoW, ch \in 2..MaxDemoH}
\* the frame times: 1/10 s, 1/20 s, 1/50 s
DemoDts == {Fx(1, 10), Fx(1, 20), Fx(1, 50)}

\* main after the start menu set the mode to m: the first level
DemoInit(m) ==
    /\ game_pc = "play"
    /\ mode = m
    /\ difficulty = 1
    /\ \E size \in DemoSizes :
          /\ grid \in LevelMazes(size)
          /\ goal_xy = GoalOf(size)
    /\ player = StartPlayer(grid)
    /\ demo_path = StartPath(mode, grid, goal_xy)
    /\ demo_idx = 0
    /\ ctrl = NewControlState
    /\ last_mouse_x = None
    /\ level_no = 1
    /\ frames = 0
    /\ tick = NoTick
    /\ dt \in DemoDts
    /\ mv_pc = "idle" /\ mv_op = "" /\ forward = 0 /\ vert_dir = 0
    /\ old_player = NoPlayer /\ old_idx = 0
    /\ GenIdle /\ FpIdle /\ RayIdle /\ SpanIdle /\ BrIdle /\ CellIdle

\* one pass of the inner loop of main; at the win the loop is left
DemoFrame ==
    /\ game_pc = "play"
    /\ \E S \in {Input(dt)} :
       \E c \in {ExpireControls(S.ctrl)} :
       \E u \in {UpdateSimulation(S.mode, grid, goal_xy, S.player, c,
                                  S.demo_path, S.demo_idx, dt)} :
       \E won \in {check_win(u.player, goal_xy)} :
         /\ tick' = [action |-> "continue", menu |-> FALSE, mode |-> S.mode,
                     p_input |-> S.player,
                     p_look |-> u.p_look, p_vert |-> u.p_vert, p_end |-> u.player,
                     floor_vert |-> cell_floor_height(
                                        grid, int(u.p_vert.x), int(u.p_vert.y)),
                     floor_end |-> cell_floor_height(
                                       grid, int(u.player.x), int(u.player.y)),
                     controller |-> Controller(S.mode),
                     vdir |-> VerticalIntent(S.mode, grid, goal_xy, u.p_look, c),
                     grid0 |-> grid, level0 |-> level_no,
                     difficulty0 |-> difficulty, won |-> won]
         /\ player' = u.player
         /\ demo_path' = u.demo_path
         /\ demo_idx' = u.demo_idx
         /\ ctrl' = c
         /\ game_pc' = IF won THEN "won" ELSE "play"
    /\ old_player' = player
    /\ old_idx' = demo_idx
    /\ UNCHANGED <<grid, mode, difficulty, last_mouse_x, goal_xy, level_no, frames,
                   dt, mv_pc, mv_op, forward, vert_dir,
                   genVars, fpVars, rayVars, spanVars, brVars, cellVars>>

\* the walking autopilot plays the level; the loop always takes its next pass
SpecWalk == DemoInit("demo_default") /\ [][DemoFrame]_vars
SpecWalkFair == SpecWalk /\ WF_vars(DemoFrame)

\* the flight autopilot plays the level
SpecFly == DemoInit("demo_free") /\ [][DemoFrame]_vars
SpecFlyFair == SpecFly /\ WF_vars(DemoFrame)

----------------------------------------------------------------------------
(* Properties of generate_maze *)

\* the Open cells of a grid, as <<x, y>>
OpenCells(g) ==
    {c \in Cells(GridW(g), GridH(g)) : g[c[2]][c[1]] = OPEN}

\* the 4-neighbours of a cell
Nbrs4(c) == {<<c[1] + 1, c[2]>>, <<c[1] - 1, c[2]>>,
             <<c[1], c[2] + 1>>, <<c[1], c[2] - 1>>}

\* the number of unordered pairs of 4-adjacent cells of the set O
EdgeCountOf(O) ==
    Cardinality({c \in O : <<c[1] + 1, c[2]>> \in O})
    + Cardinality({c \in O : <<c[1], c[2] + 1>> \in O})

\* the cells of O that can be reached from the set S by steps between
\* 4-adjacent cells of O
RECURSIVE ReachIn(_, _)
ReachIn(S, O) ==
    UNION {IF T = S THEN S ELSE ReachIn(T, O) :
              T \in {S \cup {c \in O : Nbrs4(c) \cap S # {}}}}

\* the cells of O are connected, and their adjacent pairs number one less
\* than the cells: O is a tree
IsTree(O) ==
    /\ O # {}
    /\ ReachIn({CHOOSE c \in O : TRUE}, O) = O
    /\ EdgeCountOf(O) = Cardinality(O) - 1

BorderCells(g) ==
    {c \in Cells(GridW(g), GridH(g)) :
        c[1] = 0 \/ c[1] = GridW(g) - 1 \/ c[2] = 0 \/ c[2] = GridH(g) - 1}

LatticeCells == Cells(cell_w, cell_h)

\* C1: the Open cells of the grid generate_maze returns form a tree under
\* 4-adjacency: they are connected, and the number of adjacent Open-Open
\* pairs is the number of Open cells minus 1 (so any two Open cells are joined
\* by exactly one simple path).
C1_OpenCellsFormTree ==
    gen_pc = "done" => \A O \in {OpenCells(grid)} : IsTree(O)

\* a 3 by 2 maze was returned in which some Open cell has three Open
\* neighbours: the carve backtracked and branched
C1_Witness ==
    /\ gen_pc = "done"
    /\ cell_w = 3 /\ cell_h = 2
    /\ \E O \in {OpenCells(grid)} :
          \E c \in O : Cardinality(Nbrs4(c) \cap O) >= 3

\* C2: every cell on the outer border of the returned grid (row 0, last row,
\* column 0, last column) is Wall.
C2_BorderIsWall ==
    gen_pc = "done" => \A c \in BorderCells(grid) : grid[c[2]][c[1]] = WALL

\* a maze was returned whose carve reached the far corner next to the border
C2_Witness ==
    /\ gen_pc = "done"
    /\ cell_w = 3 /\ cell_h = 2
    /\ grid[GridH(grid) - 2][GridW(grid) - 2] = OPEN
    /\ BorderCells(grid) # {}

\* C3: generate_maze does not fail on a small size: it returns a grid of
\* exactly 2*max(2,cell_h)+1 rows of exactly 2*max(2,cell_w)+1 columns, so a
\* size below 2 behaves as size 2.
C3_ClampedDimensions ==
    /\ gen_pc # "raised"
    /\ gen_pc = "done" =>
        /\ GridH(grid) = 2 * Max(2, arg_h) + 1
        /\ \A y \in DOMAIN grid :
              DOMAIN grid[y] = 0..(2 * Max(2, arg_w))
        /\ GridW(grid) % 2 = 1 /\ GridH(grid) % 2 = 1

\* generate_maze returned for a size below 2 in both axes
C3_Witness ==
    gen_pc = "done" /\ arg_w < 2 /\ arg_h < 2 /\ GridW(grid) = 5 /\ GridH(grid) = 5

\* every lattice cell was marked visited once and pushed once, its map cell
\* is Open, and the stack is empty
GenAllVisitedOnce ==
    /\ stack = << >>
    /\ \A c \in LatticeCells :
         /\ visited[c[2]][c[1]]
         /\ marked[c[2]][c[1]] = 1
         /\ pushed[c[2]][c[1]] = 1
         /\ grid[2 * c[2] + 1][2 * c[1] + 1] = OPEN

\* C4: the carving loop terminates whatever neighbours the rng picks, and
\* when it has terminated every lattice cell has been marked visited exactly
\* once and pushed exactly once, and every map cell (2*cx+1, 2*cy+1) is Open.
C4_CarveTerminates ==
    /\ <>[](gen_pc = "done")
    /\ [](gen_pc = "done" => GenAllVisitedOnce)

\* the loop of a 3 by 2 lattice ended after six pushes
C4_Witness ==
    /\ gen_pc = "done"
    /\ cell_w = 3 /\ cell_h = 2
    /\ rng_pos = 5
    /\ stack = << >>

----------------------------------------------------------------------------
(* Properties of find_path_cells *)

\* start and goal are cells of the grid
FpInBounds ==
    \E G \in {Cells(GridW(grid), GridH(grid))} : start \in G /\ goal \in G

\* find_path_cells has returned and its search had reached the goal
FpFound == fp_pc = "done" /\ FpInBounds /\ goal \in DOMAIN prev

\* the list p runs from start to goal by steps between 4-adjacent cells
FpIsWalk(p) ==
    /\ Len(p) >= 1
    /\ p[1] = start
    /\ p[Len(p)] = goal
    /\ \A k \in 1..Len(p)-1 :
          \E dx \in {p[k+1][1] - p[k][1]} : \E dy \in {p[k+1][2] - p[k][2]} :
             (IF dx < 0 THEN -dx ELSE dx) + (IF dy < 0 THEN -dy ELSE dy) = 1

\* C6: when find_path_cells finds the goal (start and goal in bounds), the
\* returned list starts with start, ends with goal, steps between 4-adjacent
\* cells, and consists of Open cells only.
C6_PathOfAdjacentOpenCells ==
    FpFound =>
        /\ FpIsWalk(fp_ret)
        /\ \A k \in 1..Len(fp_ret) : grid[fp_ret[k][2]][fp_ret[k][1]] = OPEN

\* find_path_cells found the goal from a start cell that is a Wall cell
C6_WallStartWitness ==
    FpFound /\ Len(fp_ret) >= 2 /\ grid[start[2]][start[1]] = WALL

\* the cells that steps into Open cells of the grid reach from start
FpReachable ==
    UNION {ReachIn({start}, O) : O \in {OpenCells(grid) \cup {start}}}

\* C7: find_path_cells never raises, and it returns exactly [start] whenever
\* start or goal lies outside the grid (the empty grid included) and whenever
\* the goal cannot be reached from start through Open cells.
C7_NoRouteReturnsStart ==
    /\ fp_pc # "raised"
    /\ fp_pc = "done" =>
          ((~FpInBounds \/ \E S \in {FpReachable} : goal \notin S)
              => fp_ret = <<start>>)

\* the search explored beyond the start cell, did not reach the in-bounds
\* goal, and [start] was returned
C7_Witness ==
    /\ fp_pc = "done"
    /\ FpInBounds
    /\ Cardinality(DOMAIN prev) >= 3
    /\ goal \notin DOMAIN prev
    /\ fp_ret = <<start>>

----------------------------------------------------------------------------
(* Properties of cast_ray *)

\* 1/RayScale in units of 1/RayDen
RayUnit == RayDen \div RayScale

\* the cell of the origin, when the origin is inside the grid
RayOriginCell == <<px \div RayScale, py \div RayScale>>

\* the ray runs exactly along a grid axis from a point inside an Open cell
RayAxisFromOpen ==
    /\ Cos5(ang) = 0 \/ Sin5(ang) = 0
    /\ px >= 0 /\ py >= 0
    /\ InGrid(grid, RayOriginCell[1], RayOriginCell[2])
    /\ grid[RayOriginCell[2]][RayOriginCell[1]] = OPEN

\* the numbers k >= 1 for which the k-th cell from the origin cell along the
\* axis of the ray is a Wall cell of the grid
RayWallsAhead ==
    {k \in 1..(GridW(grid) + GridH(grid)) :
        \E c \in {<<RayOriginCell[1] + k * (Cos5(ang) \div 5),
                    RayOriginCell[2] + k * (Sin5(ang) \div 5)>>} :
            InGrid(grid, c[1], c[2]) /\ grid[c[2]][c[1]] = WALL}

\* the distance from the origin to the face of its own cell the ray leaves
\* through, in units of 1/RayScale
RayToOwnFace ==
    IF Cos5(ang) > 0 THEN (RayOriginCell[1] + 1) * RayScale - px
    ELSE IF Cos5(ang) < 0 THEN px - RayOriginCell[1] * RayScale
    ELSE IF Sin5(ang) > 0 THEN (RayOriginCell[2] + 1) * RayScale - py
    ELSE py - RayOriginCell[2] * RayScale

\* the distance from the origin to the near face of the first Wall cell
\* ahead, in units of 1/RayDen
RayNearFaceDist ==
    LET k0 == CHOOSE k \in RayWallsAhead : \A j \in RayWallsAhead : k <= j
    IN  ((k0 - 1) * RayScale + RayToOwnFace) * RayUnit

\* C8 as stated: an axis ray from inside an Open cell returns the distance
\* to the near face of the first Wall cell in its direction.
C8_AxisRayReturnsFaceDistance ==
    (ray_pc = "done" /\ RayAxisFromOpen /\ RayWallsAhead # {})
        => ray_ret[1] = RayNearFaceDist

\* C8, amended: an axis ray from inside an Open cell returns the distance to
\* the near face of the first Wall cell in its direction, but no more than
\* MAX_RAY_DIST; on the grid ###/# #/### from (1.5, 1.5) with angle 0 it
\* returns 0.5.
C8_AxisRayReturnsClampedFaceDistance ==
    /\ (ray_pc = "done" /\ RayAxisFromOpen /\ RayWallsAhead # {})
          => ray_ret[1] = Min(RayNearFaceDist, MAX_RAY_DIST * RayDen)
    /\ (ray_pc = "done" /\ grid = RayTestGrid /\ ang = 1
          /\ 2 * px = 3 * RayScale /\ 2 * py = 3 * RayScale)
          => 2 * ray_ret[1] = RayDen

\* the test's ray has returned 0.5
C8_Witness ==
    /\ ray_pc = "done" /\ grid = RayTestGrid /\ ang = 1
    /\ 2 * px = 3 * RayScale /\ 2 * py = 3 * RayScale
    /\ RayAxisFromOpen /\ RayWallsAhead = {1}
    /\ 2 * ray_ret[1] = RayDen

----------------------------------------------------------------------------
(* Properties of compute_wall_span *)

\* C10: compute_wall_span returns (top, bottom) with top <= bottom for every
\* viewport height, every dist > 0, every cam_z (a camera below the floor or
\* above the wall top included) and every midline.
C10_TopNotBelowBottom ==
    (span_pc = "done" /\ dist > 0) => span_ret[1] <= span_ret[2]

\* a span was computed for a camera below the floor, and one row apart
C10_Witness ==
    /\ span_pc = "done"
    /\ dist > 0 /\ height > 0 /\ cam_z < 0
    /\ span_ret[1] < span_ret[2]


----------------------------------------------------------------------------
(* Properties of the movement functions *)

\* a call of function op has returned
MvDone(op) == mv_pc = "done" /\ mv_op = op

\* the cell the Player stood in when the function was called
OldCell == <<int(old_player.x), int(old_player.y)>>
\* that cell is a Wall cell or lies outside the grid
OldCellIsWall ==
    \/ ~InGrid(grid, OldCell[1], OldCell[2])
    \/ grid[OldCell[2]][OldCell[1]] = WALL

\* C11: resolve_floor_collision lifts a Player that is below WALL_HEIGHT in a
\* Wall cell or outside the grid to z = WALL_HEIGHT and zeroes a negative vz;
\* it lowers a Player above FREE_MAX_Z to z = FREE_MAX_Z and zeroes a positive
\* vz; it never changes x, y, the heading or the pitch.
C11_FloorCollisionClamps ==
    MvDone("resolve_floor_collision") =>
        /\ (OldCellIsWall /\ old_player.z < WALL_HEIGHT * Scale) =>
              /\ player.z = WALL_HEIGHT * Scale
              /\ old_player.vz < 0 => player.vz = 0
        /\ old_player.z > FREE_MAX_Z =>
              /\ player.z = FREE_MAX_Z
              /\ old_player.vz > 0 => player.vz = 0
        /\ player.x = old_player.x /\ player.y = old_player.y
        /\ player.ang = old_player.ang /\ player.pitch = old_player.pitch

\* a falling Player below WALL_HEIGHT in a Wall cell has been lifted
C11_Witness ==
    /\ MvDone("resolve_floor_collision")
    /\ OldCellIsWall /\ InGrid(grid, OldCell[1], OldCell[2])
    /\ old_player.z < WALL_HEIGHT * Scale /\ old_player.vz < 0
    /\ player.z = WALL_HEIGHT * Scale /\ player.vz = 0
    /\ old_player.ang # 0 /\ old_player.pitch # 0


\* cell <<cx, cy>> is a Wall cell or lies outside the grid
CellIsWall(cx, cy) == ~InGrid(grid, cx, cy) \/ grid[cy][cx] = WALL

\* the candidate position <<new_x, new_y>> of the horizontal move that was
\* called
NewPos == MoveTarget(old_player, forward, dt)

\* x is new_x if cell (int(new_x), int(old_y)) is not a wall, else the old x
XResolved ==
    IF ~CellIsWall(int(NewPos[1]), int(old_player.y))
    THEN player.x = NewPos[1]
    ELSE player.x = old_player.x

\* C13 as stated: move_horizontal_default resolves the two axes independently:
\* x becomes new_x exactly when cell (int(new_x), int(old_y)) is not a wall and
\* y becomes new_y exactly when cell (int(old_x), int(new_y)) is not a wall,
\* whatever happened on the other axis.
C13_AxesResolvedFromOldPosition ==
    MvDone("move_horizontal_default") =>
        /\ XResolved
        /\ IF ~CellIsWall(int(old_player.x), int(NewPos[2]))
           THEN player.y = NewPos[2]
           ELSE player.y = old_player.y

\* C13 amended: x becomes new_x exactly when cell (int(new_x), int(old_y)) is
\* not a wall; y becomes new_y exactly when cell (int(x), int(new_y)) is not a
\* wall, where x is the coordinate the first test has left (new_x if x moved).
C13_YResolvedAfterX ==
    MvDone("move_horizontal_default") =>
        /\ XResolved
        /\ IF ~CellIsWall(int(player.x), int(NewPos[2]))
           THEN player.y = NewPos[2]
           ELSE player.y = old_player.y

\* x has moved into the next column, where the cell at new_y is a wall, while
\* the cell at new_y in the old column is not: y has stayed
C13_Witness ==
    /\ MvDone("move_horizontal_default")
    /\ player.x = NewPos[1]
    /\ int(player.x) # int(old_player.x)
    /\ NewPos[2] # old_player.y
    /\ CellIsWall(int(player.x), int(NewPos[2]))
    /\ ~CellIsWall(int(old_player.x), int(NewPos[2]))
    /\ player.y = old_player.y

\* the floor height of cell <<cx, cy>>: WALL_HEIGHT for a Wall cell and
\* outside the grid, 0 for an Open cell
FloorAt(cx, cy) == IF CellIsWall(cx, cy) THEN WALL_HEIGHT * Scale ELSE 0

\* update_free_vertical: the Player after the integration of vz and z, the
\* floor height of its cell, and whether the height is then clamped
Integrated == FreeIntegrated(old_player, vert_dir, dt)
OldFloor == FloorAt(OldCell[1], OldCell[2])
RaisedToFloor == Integrated.z < OldFloor
LoweredToMax == Integrated.z > FREE_MAX_Z

\* C15 as stated: whenever update_free_vertical clamps the integrated height
\* (raises it to the floor height or lowers it to FREE_MAX_Z), vz is 0 after
\* the call, for every starting z, vz, vertical intent and dt.
C15_ClampZeroesVelocity ==
    (MvDone("update_free_vertical") /\ (RaisedToFloor \/ LoweredToMax)) =>
        player.vz = 0

\* C15 amended: a clamp zeroes the velocity that points into the bound: after
\* a raise to the floor height z is the floor height and vz is the integrated
\* vz if that is positive, else 0; after a lowering z is FREE_MAX_Z and vz is
\* the integrated vz if that is negative, else 0; vz is 0 after every clamp
\* of a call that started with floor height <= z <= FREE_MAX_Z.
C15_ClampZeroesVelocityIntoBound ==
    MvDone("update_free_vertical") =>
        /\ RaisedToFloor =>
              player.z = OldFloor /\ player.vz = Max(Integrated.vz, 0)
        /\ LoweredToMax =>
              player.z = FREE_MAX_Z /\ player.vz = Min(Integrated.vz, 0)
        /\ ( /\ RaisedToFloor \/ LoweredToMax
             /\ OldFloor <= old_player.z /\ old_player.z <= FREE_MAX_Z )
              => player.vz = 0

\* a Player that started below the floor height and climbs has been raised to
\* the floor height and has kept its upward velocity
C15_Witness ==
    /\ MvDone("update_free_vertical")
    /\ old_player.z < OldFloor /\ vert_dir = 1 /\ dt > 0
    /\ RaisedToFloor
    /\ player.z = OldFloor /\ player.vz > 0

\* the cell the horizontal move has left the Player in
NewCell == <<int(player.x), int(player.y)>>
\* the Player stands in a Wall cell that it did not stand in before
EnteredWall == NewCell # OldCell /\ CellIsWall(NewCell[1], NewCell[2])

\* C16 as stated: move_horizontal_free changes x (y) into a destination cell
\* only if z is at or above the floor height of that cell; a Player with
\* z < WALL_HEIGHT never enters a Wall cell and a Player with z >= WALL_HEIGHT
\* can enter any cell.
C16_EntersOnlyAtFloorHeight ==
    MvDone("move_horizontal_free") =>
        /\ player.x # old_player.x =>
              old_player.z >= FloorAt(int(NewPos[1]), int(old_player.y))
        /\ player.y # old_player.y =>
              old_player.z >= FloorAt(int(player.x), int(NewPos[2]))
        /\ old_player.z < WALL_HEIGHT * Scale => ~EnteredWall
        /\ old_player.z >= WALL_HEIGHT * Scale =>
              player.x = NewPos[1] /\ player.y = NewPos[2]

\* C16 amended: x (y) is changed into a destination cell exactly when z is at
\* or above the floor height of that cell minus 0.01; a Player with
\* z < WALL_HEIGHT - 0.01 never enters a Wall cell and a Player with
\* z >= WALL_HEIGHT - 0.01 can enter any cell.
C16_EntersWithinTolerance ==
    MvDone("move_horizontal_free") =>
        /\ IF old_player.z >= FloorAt(int(NewPos[1]), int(old_player.y)) - Fx(1, 100)
           THEN player.x = NewPos[1]
           ELSE player.x = old_player.x
        /\ IF old_player.z >= FloorAt(int(player.x), int(NewPos[2])) - Fx(1, 100)
           THEN player.y = NewPos[2]
           ELSE player.y = old_player.y
        /\ old_player.z < WALL_HEIGHT * Scale - Fx(1, 100) => ~EnteredWall
        /\ old_player.z >= WALL_HEIGHT * Scale - Fx(1, 100) =>
              player.x = NewPos[1] /\ player.y = NewPos[2]

\* a Player slightly below WALL_HEIGHT has entered a Wall cell from an Open
\* cell and has been lifted to WALL_HEIGHT
C16_Witness ==
    /\ MvDone("move_horizontal_free")
    /\ old_player.z < WALL_HEIGHT * Scale
    /\ ~OldCellIsWall
    /\ EnteredWall /\ InGrid(grid, NewCell[1], NewCell[2])
    /\ player.z = WALL_HEIGHT * Scale

\* demo_walk_step: what the call did, and whether it travels along the x axis
WalkPlan == DemoWalkPlan(old_player, demo_path, old_idx)
WalkAlongX == WalkPlan.desired = 0 \/ WalkPlan.desired = PI
\* the distance of the perpendicular coordinate to the centre of the corridor
\* cell the Player was in
WalkOffCentre(p) ==
    IF WalkAlongX
    THEN Abs(p.y - (int(old_player.y) * Scale + Fx(1, 2)))
    ELSE Abs(p.x - (int(old_player.x) * Scale + Fx(1, 2)))

\* C20: when demo_walk_step translates toward the next path cell, the
\* coordinate perpendicular to the direction of travel is not farther from
\* the centre (k + 0.5) of the corridor cell after the step than before.
C20_WalkRecentres ==
    (MvDone("demo_walk_step") /\ WalkPlan.kind = "translate") =>
        WalkOffCentre(player) <= WalkOffCentre(old_player)

\* demo_walk_step translated a Player that stood on the centre line of the
\* corridor, and the Player has left the centre line
C20_Witness ==
    /\ MvDone("demo_walk_step") /\ WalkPlan.kind = "translate"
    /\ WalkOffCentre(old_player) = 0
    /\ WalkOffCentre(player) > 0

\* demo_walk_step was called with no route to walk: the path is empty or has
\* one element, or idx is at (or past) the last index
NoRouteCall ==
    /\ MvDone("demo_walk_step")
    /\ demo_path = << >> \/ old_idx >= Len(demo_path) - 1

\* C22: demo_walk_step called with an empty or one-element path, or with idx
\* already at the last index, changes no field of the player pose and
\* returns idx unchanged (so that the walking autopilot never moves the
\* player along such a path).
C22_NoRouteLeavesPose ==
    NoRouteCall => player = old_player /\ demo_idx = old_idx

\* the call had a one-element path, idx 0 and dt > 0, and the Player stood
\* in an Open cell with an Open cell ahead, where a translation would have
\* moved it
C22_Witness ==
    /\ NoRouteCall /\ Len(demo_path) = 1 /\ old_idx = 0 /\ dt > 0
    /\ ~OldCellIsWall
    /\ old_player.ang = 0
    /\ ~CellIsWall(int(old_player.x + Mul(MOVE_SPEED, dt)), int(old_player.y))
    /\ int(old_player.x + Mul(MOVE_SPEED, dt)) # int(old_player.x)
    /\ player = old_player

\* demo_walk_step did not return at once: the heading differs from the
\* direction to the next path cell by WalkPlan.diff
WalkCall == MvDone("demo_walk_step") /\ WalkPlan.kind # "return"
WalkOffHeading == Abs(WalkPlan.diff) > Fx(7, 100)
\* what is left of the difference after the call
WalkDiffAfter == normalize_angle(WalkPlan.desired - player.ang)
WalkTurned == normalize_angle(player.ang - old_player.ang)
WalkSameSpot == player.x = old_player.x /\ player.y = old_player.y

\* C24: the walking autopilot rotates before it translates: in a call of
\* demo_walk_step where the heading differs from the axis-aligned direction
\* to the next path cell by more than 0.07 rad only the heading changes, by
\* at most ROT_SPEED * dt, toward that direction and never past it, and x
\* and y stay; x or y change only in a call where the heading is within 0.07
\* rad of the direction.
C24_RotatesBeforeTranslating ==
    WalkCall =>
        /\ WalkOffHeading =>
              /\ player = [old_player EXCEPT !.ang = player.ang]
              /\ Abs(WalkTurned) <= Mul(ROT_SPEED, dt)
              /\ WalkTurned * WalkPlan.diff > 0
              /\ WalkDiffAfter * WalkPlan.diff >= 0
              /\ Abs(WalkDiffAfter) < Abs(WalkPlan.diff)
        /\ ~WalkSameSpot => ~WalkOffHeading

\* the call turned the Player as far as ROT_SPEED * dt allows, short of the
\* direction to the next path cell, and left it on the spot although the
\* cell ahead is Open
C24_Witness ==
    /\ WalkCall /\ WalkOffHeading
    /\ Abs(WalkPlan.diff) > Mul(ROT_SPEED, dt)
    /\ Abs(WalkTurned) = Mul(ROT_SPEED, dt)
    /\ WalkDiffAfter # 0
    /\ WalkSameSpot
    /\ ~OldCellIsWall
    /\ old_player.ang = Fx(3, 10)
    /\ ~CellIsWall(int(MoveTarget(old_player, 1, dt)[1]), int(old_player.y))
    /\ MoveTarget(old_player, 1, dt)[1] # old_player.x

\* a call of one of the two functions of grounded motion has returned
GroundedCall == MvDone("move_horizontal_default") \/ MvDone("demo_walk_step")

\* C25: grounded motion never ends inside a wall: a call of
\* move_horizontal_default or of demo_walk_step (any heading, any forward
\* intent, any dt) on a Player whose cell is Open leaves the Player in a cell
\* (int(x), int(y)) that is Open and inside the grid, and so does every
\* sequence of such calls that starts in an Open cell.
C25_GroundedStaysOpen ==
    (GroundedCall /\ ~OldCellIsWall) =>
        /\ InGrid(grid, NewCell[1], NewCell[2])
        /\ grid[NewCell[2]][NewCell[1]] = OPEN

\* move_horizontal_default moved a Player diagonally from an Open cell whose
\* diagonal neighbour is a Wall: one axis moved, the other was blocked
C25_Witness ==
    /\ MvDone("move_horizontal_default") /\ ~OldCellIsWall
    /\ CellIsWall(int(MoveTarget(old_player, forward, dt)[1]),
                  int(MoveTarget(old_player, forward, dt)[2]))
    /\ NewCell # OldCell
    /\ player.x # old_player.x /\ player.y = old_player.y
    /\ MoveTarget(old_player, forward, dt)[2] # old_player.y
    /\ ~CellIsWall(NewCell[1], NewCell[2])

\* z is between the floor height f and FREE_MAX_Z, |vz| is at most FREE_MAX_V
FlightBounds(p, f) ==
    /\ f <= p.z /\ p.z <= FREE_MAX_Z
    /\ -FREE_MAX_V <= p.vz /\ p.vz <= FREE_MAX_V

\* C14: after every call of update_free_vertical and of move_horizontal_free
\* (any vertical intent, any forward intent, any dt >= 0, |vz| <= FREE_MAX_V
\* on entry as free flight leaves it), the player's z lies between the floor
\* height of the cell the player occupies (WALL_HEIGHT for a Wall or
\* out-of-grid cell, 0 for an Open cell) and FREE_MAX_Z, and
\* |vz| <= FREE_MAX_V.
C14_FreeFlightBounds ==
    (MvDone("update_free_vertical") \/ MvDone("move_horizontal_free")) =>
        FlightBounds(player, FloorAt(NewCell[1], NewCell[2]))

\* update_free_vertical accelerated past FREE_MAX_V and clamped the velocity,
\* the height staying below FREE_MAX_Z
C14_Witness ==
    /\ MvDone("update_free_vertical")
    /\ FreeVelocityUnclamped(old_player, vert_dir, dt) > FREE_MAX_V
    /\ player.vz = FREE_MAX_V
    /\ player.z < FREE_MAX_Z

----------------------------------------------------------------------------
(* Properties of the Braille renderer *)

\* the sub-pixels <<sub_col, sub_row>> of the cell that the wall spans cover
BrCovered ==
    {sp \in {0, 1} \X (0..3) :
        /\ br_top[sp[1] + 1] <= 4 * br_y + sp[2]
        /\ 4 * br_y + sp[2] < br_bot[sp[1] + 1]}

\* the bit of each sub-pixel: 0x01 0x02 0x04 0x40 / 0x08 0x10 0x20 0x80
BrDotBit == <<<<1, 2, 4, 64>>, <<8, 16, 32, 128>>>>

\* bit b (a power of two) is set in n
BrHasBit(n, b) == (n \div b) % 2 = 1

\* C12: the eight sub-pixels of a cell have eight distinct single bits
\* (column 0: 0x01 0x02 0x04 0x40, column 1: 0x08 0x10 0x20 0x80); a cell
\* with wall coverage gets the glyph U+2800 + mask, where the mask has the
\* bits of exactly the covered sub-pixels; sub-column 1, sub-row 3 alone
\* gives the mask 0x80.
C12_BraillePacking ==
    br_pc = "done" =>
        /\ BrCovered = {} <=> br_ret = None
        /\ br_ret # None =>
              /\ Len(br_ret) = 1
              /\ br_ret[1] >= BRAILLE_BASE /\ br_ret[1] < BRAILLE_BASE + 256
              /\ \A sp \in {0, 1} \X (0..3) :
                    BrHasBit(br_ret[1] - BRAILLE_BASE, BrDotBit[sp[1] + 1][sp[2] + 1])
                        <=> sp \in BrCovered
        /\ BrCovered = {<<1, 3>>} => br_ret = <<BRAILLE_BASE + 128>>

\* only sub-column 1, sub-row 3 of the cell in row 1 is covered
C12_Witness ==
    /\ br_pc = "done"
    /\ br_y = 1
    /\ BrCovered = {<<1, 3>>}
    /\ br_ret = <<BRAILLE_BASE + 128>>


----------------------------------------------------------------------------
(* Properties of the game loop *)

\* a level is being played, or main has returned from one
InGame == game_pc # "idle"
\* the last frame ran _update_simulation
Ticked == InGame /\ tick.action = "continue"

InRange(p) ==
    /\ -PI <= p.ang /\ p.ang <= PI
    /\ -PITCH_MAX <= p.pitch /\ p.pitch <= PITCH_MAX

\* C17: in every reachable state of a level the player's heading lies in
\* [-pi, pi] and the player's pitch in [-PITCH_MAX, PITCH_MAX]; this holds
\* as well for the Player a frame leaves before a won level is replaced.
C17_HeadingAndPitchInRange ==
    InGame => InRange(player) /\ InRange(tick.p_end)

\* a frame of a manual mode turned the heading past pi with the right arrow
\* held, after an earlier frame had pushed the pitch to PITCH_MAX
C17_Witness ==
    /\ Ticked /\ ~tick.won
    /\ tick.mode \in ManualModes
    /\ ctrl.rot_dir = 1
    /\ tick.p_input.ang + Mul(ROT_SPEED, dt) > PI
    /\ player.pitch = PITCH_MAX
    /\ frames = 2

\* the position of a Player
Position(p) == <<p.x, p.y, p.z>>
\* the controller the mode selects
ControllerOf(m) ==
    CASE m = "demo_default" -> "walk"
      [] m = "demo_free" -> "flight"
      [] m = "default" -> "manual"
      [] m = "free" -> "manual_free"
\* the frame ran the branch its mode selects; in a manual mode, with no key
\* held and no look intent, no autopilot moved or turned the player
ManualModesHaveNoAutopilot ==
    /\ tick.controller = ControllerOf(tick.mode)
    /\ (/\ tick.mode \in ManualModes /\ ~tick.won
        /\ ctrl.move_dir = 0 /\ tick.p_look = old_player)
       => /\ tick.p_end.x = old_player.x /\ tick.p_end.y = old_player.y
          /\ tick.p_end.ang = old_player.ang /\ tick.p_end.pitch = old_player.pitch

\* C18 as stated: in every tick exactly one controller mutates the pose; in
\* the demo modes no manual key or mouse intent changes it (the Player the
\* autopilot starts from is the Player of the frame's start), and in the
\* manual modes no autopilot writes it.
C18_OneControllerPerTick ==
    Ticked =>
        /\ ManualModesHaveNoAutopilot
        /\ tick.mode \in DemoModes => tick.p_look = old_player

\* C18, amended: in every tick the branch of the mode runs; in the demo modes
\* the manual intents (arrow keys, camera reset, mouse look) change only the
\* heading, the pitch and vz, and the position is written by the autopilot
\* alone; in the manual modes no autopilot writes the pose.
C18_OnePositionControllerPerTick ==
    Ticked =>
        /\ ManualModesHaveNoAutopilot
        /\ tick.mode \in DemoModes => Position(tick.p_look) = Position(old_player)

\* a frame of a demo mode in which a held arrow key turned the heading before
\* the autopilot wrote the pose
C18_Witness ==
    /\ Ticked /\ tick.mode \in DemoModes
    /\ ctrl.rot_dir # 0
    /\ tick.p_look.ang # old_player.ang
    /\ tick.p_end # tick.p_look
    /\ Position(tick.p_look) = Position(old_player)

\* a frame has run
Framed == InGame /\ tick.action # ""
\* the events of the last frame: the level was won, restart was chosen in the
\* pause menu, the difficulty was altered in the pause menu
Won == tick.won
Restarted == tick.action = "restart"
DifficultyChanged == tick.menu /\ difficulty # tick.difficulty0
\* the last frame started a new level
NewLevelStarted == level_no = tick.level0 + 1

\* C19: a frame with a win, a restart or a difficulty change starts a new
\* level (_new_level runs and replaces the grid by a freshly generated one);
\* a frame with none of the three starts no new level and leaves the grid as
\* it was.
C19_GridReplacedOnLevelEvents ==
    Framed =>
        /\ (Won \/ Restarted \/ DifficultyChanged) => NewLevelStarted
        /\ ~(Won \/ Restarted \/ DifficultyChanged) =>
               level_no = tick.level0 /\ grid = tick.grid0

\* the difficulty was altered in the pause menu, the menu was left by resume,
\* and the level goes on with the grid it had
C19_Witness ==
    /\ Framed /\ DifficultyChanged /\ tick.action = "continue" /\ ~Won
    /\ level_no = tick.level0 /\ grid = tick.grid0
    /\ difficulty_to_size(difficulty) # <<GridW(grid) \div 2, GridH(grid) \div 2>>

----------------------------------------------------------------------------
(* Properties of the autopilots *)

\* the last frame ran demo_free_step, on the Player tick.p_look
Flew == Ticked /\ tick.controller = "flight"
\* the horizontal distance of that Player to the centre of the goal cell
GoalDist ==
    Hypot(goal_xy[1] * Scale + Fx(1, 2) - tick.p_look.x,
          goal_xy[2] * Scale + Fx(1, 2) - tick.p_look.y)
FarFromGoal == GoalDist > 2 * Scale
\* the cruise altitude 1.35 and the dead band 0.05 around a target altitude
CruiseZ == Fx(135, 100)
DeadBand == Fx(5, 100)
\* the vertical intent that steers the height z to the target altitude
IntentToward(target, z) ==
    IF z < target - DeadBand THEN 1 ELSE IF z > target + DeadBand THEN -1 ELSE 0

\* C21 as stated: the flight autopilot issues the descend intent (vertical
\* direction -1) only once the horizontal distance to the goal centre is at
\* most 2.0; while the distance is larger it never commands descent, over
\* any sequence of steps from the level start.
C21_DescendsOnlyNearGoal ==
    (Flew /\ tick.vdir = -1) => ~FarFromGoal

\* C21 amended: while the horizontal distance to the goal centre is larger
\* than 2.0 the autopilot steers to the cruise altitude 1.35: it commands
\* climb below 1.30, descent above 1.40 (back to the cruise altitude after an
\* overshoot) and nothing in between; once the distance is at most 2.0 it
\* steers in the same way to the floor height of the goal cell.
C21_SteersToCruiseWhileFar ==
    Flew =>
        /\ FarFromGoal => tick.vdir = IntentToward(CruiseZ, tick.p_look.z)
        /\ ~FarFromGoal => tick.vdir = IntentToward(0, tick.p_look.z)

\* far from the goal the climb has overshot the cruise altitude, and the
\* autopilot commands descent
C21_Witness ==
    /\ Flew /\ FarFromGoal /\ frames = 0
    /\ tick.p_look.z > CruiseZ + DeadBand
    /\ tick.p_look.vz > 0
    /\ tick.vdir = -1

\* the loop of main was left at the win
DemoWon == game_pc = "won"

\* the path index that demo_walk_step returned is not below the one it was
\* given and not past the last index of the path
WalkIndexInOrder ==
    /\ demo_path # None
    /\ old_idx <= demo_idx
    /\ demo_idx <= Len(demo_path) - 1

----------------------------------------------------------------------------
(* Properties of the cell classes of the three renderers *)

\* the cell was drawn and the wall span of its column does not cover its row
NoWallCell == cl_pc = "done" /\ ~(cl_top <= cl_y /\ cl_y < cl_bot)

\* C23: for a terminal cell without wall coverage the Braille renderer
\* chooses between blank ceiling, floor shading and wall-top shading as the
\* Text and the HalfBlock renderers do: for the same row, wall span, mask and
\* view height the three draw a cell of the same class.
C23_SameFallbackClass ==
    NoWallCell =>
        /\ cl_ret.braille = cl_ret.text
        /\ cl_ret.braille = cl_ret.halfblock

\* a row of the upper half of the view, below the wall span, without a mask:
\* floor in render_text, blank ceiling in render_braille and render_halfblock
C23_Witness ==
    /\ NoWallCell /\ cl_mask = None
    /\ cl_y >= cl_bot /\ cl_y < cl_view_h \div 2
    /\ cl_ret.text = "floor"
    /\ cl_ret.braille = "ceiling" /\ cl_ret.halfblock = "ceiling"

----------------------------------------------------------------------------
(* Properties of the player's cell in the game loop *)

PlayerCell == <<int(player.x), int(player.y)>>
PlayerInGrid == InGrid(grid, PlayerCell[1], PlayerCell[2])
PlayerOnOpen == PlayerInGrid /\ grid[PlayerCell[2]][PlayerCell[1]] = OPEN
GroundedMode == mode \in {"default", "demo_default"}

\* C26: in the game loop, whenever the mode is default or demo_default, after
\* every tick the player has z = 0 and vz = 0 and the player's cell is an
\* Open cell, for every sequence of inputs, mode changes made in the pause
\* menu included.
C26_GroundedOnOpenFloor ==
    (Ticked /\ GroundedMode) =>
        player.z = 0 /\ player.vz = 0 /\ PlayerOnOpen

\* the frame ran the pause menu, which changed the mode from free to default
\* while the Player was above the walls and off the Open cells: the tick has
\* put the Player down (z = 0, vz = 0) where it was
C26_Witness ==
    /\ Ticked /\ tick.menu /\ mode = "default"
    /\ old_player.z >= WALL_HEIGHT * Scale
    /\ player.x = old_player.x /\ player.y = old_player.y
    /\ player.z = 0 /\ player.vz = 0
    /\ ~PlayerOnOpen

\* C30: in every mode and after every sequence of movement updates from the
\* level start the player's horizontal position stays inside the grid:
\* 0 <= int(x) < grid width and 0 <= int(y) < grid height, also in free
\* flight at any height.
C30_StaysInsideGrid == InGame => PlayerInGrid

\* a frame of manual free flight has carried the Player, above the walls,
\* from inside the grid over the border and out of the grid
C30_Witness ==
    /\ Ticked /\ tick.controller = "manual_free" /\ ~tick.won
    /\ InGrid(grid, int(old_player.x), int(old_player.y))
    /\ tick.p_vert.z >= WALL_HEIGHT * Scale
    /\ ~PlayerInGrid

----------------------------------------------------------------------------
(* Properties of the level that _new_level sets up *)

\* generate_maze has returned the maze of a call with the cw and ch that
\* _new_level passes, which are never below 2 (difficulty_to_size)
LevelMade == gen_pc = "done" /\ arg_w >= 2 /\ arg_h >= 2
LevelStart == <<1, 1>>
LevelGoal == GoalOf(<<arg_w, arg_h>>)
LevelPath == find_path_cells(grid, LevelStart, LevelGoal)

\* C27: for every maze that generate_maze(cw, ch) produces, the start cell
\* (1, 1) and the goal cell (2 * (cw - 1) + 1, 2 * (ch - 1) + 1) that
\* _new_level uses are both Open and distinct, and find_path_cells from the
\* start cell to the goal cell returns a path of at least two cells that
\* begins at the start cell and ends at the goal cell (never the path of
\* one element that stands for "no route").
C27_LevelHasRoute ==
    LevelMade =>
        /\ InGrid(grid, LevelGoal[1], LevelGoal[2])
        /\ grid[LevelStart[2]][LevelStart[1]] = OPEN
        /\ grid[LevelGoal[2]][LevelGoal[1]] = OPEN
        /\ LevelStart # LevelGoal
        /\ \A pth \in {LevelPath} :
              /\ Len(pth) >= 2
              /\ pth[1] = LevelStart
              /\ pth[Len(pth)] = LevelGoal

\* a maze of 3 by 3 cells whose route to the goal is a detour: it is longer
\* than the 9 cells of a route that only goes right and down
C27_Witness ==
    /\ LevelMade /\ arg_w = 3 /\ arg_h = 3
    /\ Len(LevelPath) > 9
    /\ LevelPath[Len(LevelPath)] = LevelGoal

\* C29: in demo_free mode on a generated maze, from (1.5, 1.5, z = 0) with
\* heading 0, with no input and frames of a small dt > 0, the calls of
\* demo_free_step eventually bring the player into the goal cell: the
\* player is never blocked for good by a wall between it and the goal after
\* it has started to descend.
C29_FlightReachesGoal == <>DemoWon

\* the flight autopilot has come down to the floor within 2 cells of the
\* goal, in a cell that is not the goal cell, and a frame leaves the Player
\* as it was: every later frame does the same
C29_Witness ==
    /\ game_pc = "play" /\ Flew
    /\ ~FarFromGoal /\ ~check_win(player, goal_xy)
    /\ player.z = 0 /\ tick.vdir = 0
    /\ player = old_player

=============================================================================
